---------------------------- MODULE Spec2Model ----------------------------
(***************************************************************************)
(* A model of omniscan's reconciliation engine: the debounced scan queue   *)
(* of PlexScanner (trigger_scan, _process_scan_queue, _do_trigger_scan),   *)
(* the per-file event handler (scan_file), the full sweep (run_scan,       *)
(* scan_directory), the library cache (cache_library_files,                *)
(* is_in_library) and the persistent StuckFileTracker.                     *)
(*                                                                         *)
(* Paths are sequences of one-character tokens ("/" is the separator), so  *)
(* that str.startswith, os.path.dirname and os.path.basename are computed  *)
(* on the text of the path, as the code does.                              *)
(***************************************************************************)
EXTENDS Integers, Sequences, FiniteSets, TLC

(***************************************************************************)
(* Bounds of the model.                                                    *)
(***************************************************************************)
\* the clock stops here
MaxTime == 3
\* cap of the attempts column of stuck_files
MaxAttempts == 5
\* cap on the dashboard's forced scans
MaxForced == 1
\* cap on the number of sweeps started
MaxSweeps == 1
\* cap on the enrollments counted in one burst
MaxBurst == 3
\* cap on the rows the tracker's callers add to table events directly
MaxEvents == 2
\* cap on the deleted events handled for one path
MaxDeletes == 2
\* failed connection attempts of one connect_to_plex call
MaxFails == 8

(***************************************************************************)
(* Configuration (config.py) and program constants.                        *)
(***************************************************************************)
\* cfg['SCAN_DEBOUNCE'], seconds (10 by default)
SCAN_DEBOUNCE == 2
\* cfg['DELETION_THRESHOLD'], items (50 by default)
DELETION_THRESHOLD == 1
\* StuckFileTracker.max_retries
max_retries == 3
\* ThreadPoolExecutor(max_workers=4) of scan_monitor_executor
MONITOR_WORKERS == 4
\* rows add_event keeps
EVENT_KEEP == 20000
\* time.sleep(2) of handle_deletion, seconds
DELETE_WAIT == 2

(***************************************************************************)
(* The file system and the server's sections.                              *)
(***************************************************************************)
RootM == <<"/", "m">>
RootT == <<"/", "t">>
DirA == RootM \o <<"/", "a">>
DirB == RootM \o <<"/", "b">>
F1 == DirA \o <<"/", "x">>
F2 == DirB \o <<"/", "y">>

\* the media files on disk; all have a media extension, a size > 0 and match
\* no ignore pattern
Files == {F1, F2}

\* what the filters read of a file on disk: a media file that is visible and
\* not empty, a media file whose name begins with ".", a file whose extension
\* is not in MEDIA_EXTENSIONS, a media file of size 0
FileKinds == {"media", "hidden", "other", "empty"}

\* self.config['SCAN_PATHS']
SCAN_PATHS == <<RootM>>

\* the sections of the server, as get_library_ids stores them (lines 138-192)
ServerSections ==
    << [id |-> "1", title |-> "Movies", type |-> "movie", locations |-> <<RootM>>],
       [id |-> "2", title |-> "TV", type |-> "show", locations |-> <<RootT>>] >>

LibIds == {ServerSections[i].id : i \in 1..Len(ServerSections)}

\* self.library_sections_cache: what get_library_ids stored at startup, the
\* sections of the server or nothing when the server could not be asked
VARIABLE library_sections_cache

NoLib == "none"

\* self.library_files: a section without a key, and a section with a set
Absent == [present |-> FALSE, files |-> {}]
Cached(S) == [present |-> TRUE, files |-> S]

(***************************************************************************)
(* Path helpers.                                                           *)
(***************************************************************************)
\* str.startswith
StartsWith(s, pre) ==
    /\ Len(pre) <= Len(s)
    /\ SubSeq(s, 1, Len(pre)) = pre

\* index of the last "/" of p (0 if none)
LastSep(p) ==
    LET idx == {i \in 1..Len(p) : p[i] = "/"}
    IN  IF idx = {} THEN 0 ELSE CHOOSE i \in idx : \A j \in idx : j <= i

\* os.path.dirname
dirname(p) ==
    LET k == LastSep(p)
    IN  IF k <= 1 THEN SubSeq(p, 1, k) ELSE SubSeq(p, 1, k - 1)

\* os.path.basename
basename(p) == SubSeq(p, LastSep(p) + 1, Len(p))

\* os.path.normpath on the paths of the model: a trailing separator is dropped
normpath(p) ==
    IF Len(p) > 1 /\ p[Len(p)] = "/" THEN SubSeq(p, 1, Len(p) - 1) ELSE p

\* the result for a path no location matches: (None, None, None)
NoSection == [id |-> NoLib, title |-> NoLib]

\* a test that would let a later location of the same length take the match
LongerMatchOrEqual(length, best_match_length) == length >= best_match_length

\* line 210: len(normalized_location) > best_match_length
LongerMatch(length, best_match_length) == length > best_match_length

\* lines 206-212: the locations of one section, in order
RECURSIVE ScanLocations(_, _, _, _)
ScanLocations(section, locations, normalized_scan_path, best) ==
    IF locations = <<>> THEN best
    ELSE LET normalized_location == normpath(Head(locations))
             hit == /\ StartsWith(normalized_scan_path, normalized_location)
                    /\ LongerMatch(Len(normalized_location), best.length)
         IN  ScanLocations(section, Tail(locations), normalized_scan_path,
                           IF hit
                           THEN [match |-> [id |-> section.id, title |-> section.title],
                                 length |-> Len(normalized_location)]
                           ELSE best)

\* lines 201-212: the sections, in order
RECURSIVE ScanSections(_, _, _)
ScanSections(sections, normalized_scan_path, best) ==
    IF sections = <<>> THEN best
    ELSE ScanSections(Tail(sections), normalized_scan_path,
                      ScanLocations(Head(sections), Head(sections).locations,
                                    normalized_scan_path, best))

\* get_library_id_for_path over a given section cache, lines 194-217: the
\* first location met that is a text prefix of the normalized path and longer
\* than every match before it names the section
resolve(sections, file_path) ==
    ScanSections(sections, normpath(file_path),
                 [match |-> NoSection, length |-> 0]).match

\* PlexScanner.get_library_id_for_path: resolve over self.library_sections_cache
get_library_id_for_path(file_path) == resolve(library_sections_cache, file_path)

\* PlexScanner.is_library_root
is_library_root(library_id, folder_path) ==
    \E i \in 1..Len(library_sections_cache) :
        /\ library_sections_cache[i].id = library_id
        /\ \E j \in 1..Len(library_sections_cache[i].locations) :
              normpath(folder_path) = normpath(library_sections_cache[i].locations[j])

\* the refresh target scan_file and scan_directory compute for a file
TargetPath(library_id, file_path) ==
    IF is_library_root(library_id, dirname(file_path))
    THEN file_path ELSE dirname(file_path)


\* the (library_id, folder_path) keys of pending_scans the model uses
Keys == {<<"1", DirA>>, <<"1", DirB>>, <<"1", RootM>>, <<"2", RootT>>}

\* the keys a webhook or the file browser enrolls without force
DirKeys == {<<"1", DirA>>, <<"1", DirB>>}

\* the thread of main.py that calls run_scan at startup and on schedule
SweepThreads == {"sched"}

\* every thread that may call run_scan: main.py's, and the thread
\* /api/scan-all starts
Callers == {"sched", "web"}

VARIABLES
    now,                    \* time.time(), in seconds
    pending_scans,          \* self.pending_scans: key -> time of its last enrollment
    pending_notifications,  \* self.pending_notifications: target -> group
    tasks,                  \* the _do_trigger_scan calls queued or running
    activities,             \* server: the sections with a running refresh
    server_index,           \* server: the files each section indexes
    library_files,          \* self.library_files: section -> its set of paths, if any
    loading_libraries,      \* self.loading_libraries
    fills,                  \* the cache_library_files calls between fetch and store
    is_scanning,            \* self.is_scanning
    stuck_files,            \* table stuck_files: path -> attempts (0: no row)
    events,                 \* table events: the rows, oldest first
    event_seq,              \* the AUTOINCREMENT counter of table events
    sw,                     \* per run_scan caller: its position and its locals
    last_enroll,            \* history: key -> time of its last non-forced enrollment
    burst,                  \* history: key -> the running burst of enrollments
    delivered,              \* history: the grouped notifications sent
    last_ret,               \* history: path -> what increment_attempt last returned
    calls,                  \* history: path -> increment_attempt calls since its row was deleted
    new_at,                 \* history: path -> time it was last detected as new and not given up
    counters,               \* history: forced scans (and the age of the forced key's
                            \* pending entry), sweeps, whether a sweep tripped the
                            \* safety check, other enrollments, requests
                            \* sent, the id counter of table events at the start
                            \* and when the table was last cleared
    config,                 \* self.config
    fs,                     \* the file system: the scan root's mount, the files on it,
                            \* whether history.db can be opened and written
    del,                    \* per path: the handle_deletion call on it, if any
    call                    \* a call of a path function: its arguments and result

vars == <<library_sections_cache, now, pending_scans, pending_notifications, tasks, activities,
          server_index, library_files, loading_libraries, fills, is_scanning,
          stuck_files, events, event_seq, sw,
          last_enroll, burst, delivered, last_ret, calls, new_at,
          counters, config, fs, del, call>>

schedVars == <<pending_scans, pending_notifications, tasks, last_enroll, burst,
               delivered>>
cacheVars == <<library_files, loading_libraries, fills>>
trackerVars == <<stuck_files, events, event_seq, last_ret>>
serverVars == <<activities, server_index>>
eventVars == <<calls, new_at>>
envVars == <<fs, del, call>>
setupVars == <<config, library_sections_cache>>

\* a dispatch that would not look at DRY_RUN
DryRunOff == FALSE

\* self.config.get('SERVER_TYPE', 'plex'), ['DRY_RUN'] and ['HEALTH_CHECK']
SERVER_TYPE == config.SERVER_TYPE
DRY_RUN == config.DRY_RUN
HEALTH_CHECK == config.HEALTH_CHECK

(***************************************************************************)
(* The ignore patterns: is_ignored.                                        *)
(***************************************************************************)
\* whether the glob pat matches the whole of s, as the regular expression
\* fnmatch.translate makes of it does: "*" stands for any tokens, separators
\* included, "?" for one token, any other token for itself
RECURSIVE GlobMatch(_, _)
GlobMatch(pat, s) ==
    IF pat = <<>> THEN s = <<>>
    ELSE IF Head(pat) = "*"
    THEN GlobMatch(Tail(pat), s) \/ (s # <<>> /\ GlobMatch(pat, Tail(s)))
    ELSE /\ s # <<>>
         /\ Head(pat) = "?" \/ Head(pat) = Head(s)
         /\ GlobMatch(Tail(pat), Tail(s))

\* is_ignored, lines 124-136: a pattern matches the path or its last component
is_ignored(file_path) ==
    /\ config.IGNORE_PATTERNS # {}
    /\ \E pat \in config.IGNORE_PATTERNS :
          GlobMatch(pat, file_path) \/ GlobMatch(pat, basename(file_path))

(***************************************************************************)
(* Generic helpers.                                                        *)
(***************************************************************************)
\* a dict with key k set to v
Put(f, k, v) == [x \in DOMAIN f \cup {k} |-> IF x = k THEN v ELSE f[x]]

\* a dict without the keys of ks
Drop(f, ks) == [x \in DOMAIN f \ ks |-> f[x]]

\* the elements of a sequence that satisfy Test, in order
RECURSIVE SelectIdx(_, _)
SelectIdx(s, keep) ==
    IF s = <<>> THEN <<>>
    ELSE LET n == Len(s)
             front == SelectIdx(SubSeq(s, 1, n - 1), keep)
         IN  IF n \in keep THEN Append(front, s[n]) ELSE front

\* the order of str on the characters of the model's paths
CharRank(c) ==
    CASE c = "/" -> 0 [] c = "a" -> 1 [] c = "b" -> 2 [] c = "m" -> 3
      [] c = "t" -> 4 [] c = "x" -> 5 [] c = "y" -> 6 [] OTHER -> 7

\* a < b for two str
RECURSIVE StrLess(_, _)
StrLess(a, b) ==
    IF b = <<>> THEN FALSE
    ELSE IF a = <<>> THEN TRUE
    ELSE IF Head(a) # Head(b) THEN CharRank(Head(a)) < CharRank(Head(b))
    ELSE StrLess(Tail(a), Tail(b))

\* sorted(list(folders_to_scan), key=lambda x: x[1]), line 1150
RECURSIVE SortedFolders(_)
SortedFolders(S) ==
    IF S = {} THEN <<>>
    ELSE LET m == CHOOSE x \in S : \A y \in S \ {x} :
                     StrLess(x[2], y[2]) \/ (x[2] = y[2] /\ StrLess(x[1], y[1]))
         IN  <<m>> \o SortedFolders(S \ {m})

(***************************************************************************)
(* The scan queue: trigger_scan, _process_scan_queue, _do_trigger_scan.    *)
(***************************************************************************)
NewGroup == [added |-> <<>>, deleted |-> <<>>, library_title |-> ""]

\* one dispatch task: a call of _do_trigger_scan
Task(library_id, folder_path, st, forced) ==
    [lib |-> library_id, folder |-> folder_path, st |-> st, forced |-> forced]

\* the keys of the ordered dict pending_scans, and the time stored for a key
PendingKeys(pending) == {pending[i].key : i \in 1..Len(pending)}
PendingTime(pending, key) ==
    LET i == CHOOSE j \in 1..Len(pending) : pending[j].key = key
    IN  pending[i].t

\* self.pending_scans[key] = t: a known key keeps its place, a new one goes last
SetTime(pending, key, t) ==
    IF key \in PendingKeys(pending)
    THEN [i \in 1..Len(pending) |->
            IF pending[i].key = key THEN [key |-> key, t |-> t] ELSE pending[i]]
    ELSE Append(pending, [key |-> key, t |-> t])

\* a trigger_scan that would leave the time of a key that is already pending
EnqueueScanMissesRefresh(pending, key) ==
    IF key \in PendingKeys(pending) THEN pending ELSE SetTime(pending, key, now)

\* trigger_scan without force, lines 438-443: the key's time becomes now
EnqueueScan(pending, key) == SetTime(pending, key, now)

\* trigger_scan without force for the keys of a sequence, one call after another
RECURSIVE EnqueueAll(_, _)
EnqueueAll(pending, ks) ==
    IF ks = <<>> THEN pending
    ELSE EnqueueAll(EnqueueScan(pending, Head(ks)), Tail(ks))

\* the burst of enrollments a non-forced enrollment of key continues or starts
BurstAfter(key) ==
    IF last_enroll[key] >= 0 /\ now - last_enroll[key] < SCAN_DEBOUNCE
    THEN [burst[key] EXCEPT !.n = IF @ < MaxBurst THEN @ + 1 ELSE @]
    ELSE [n |-> 1, disp |-> 0]

\* the history of a set of keys enrolled without force
NoteEnroll(ks) ==
    /\ last_enroll' = [k \in Keys |-> IF k \in ks THEN now ELSE last_enroll[k]]
    /\ burst' = [k \in Keys |-> IF k \in ks THEN BurstAfter(k) ELSE burst[k]]

\* a test that would fire one second early
IsReadyEarly(last_time) == now - last_time >= SCAN_DEBOUNCE - 1

\* the test of the tick loop, line 459
IsReady(last_time) == now - last_time >= SCAN_DEBOUNCE

\* the positions of pending_scans the tick loop removes in one pass
ReadyIdx == {i \in 1..Len(pending_scans) : IsReady(pending_scans[i].t)}


\* an add_event that would only insert
add_event_no_prune(rows, seq, event_type, details, status) ==
    Append(rows, [id |-> seq + 1, event_type |-> event_type,
                  details |-> details, status |-> status])

\* StuckFileTracker.add_event, lines 53-56: insert a row with the next id,
\* then delete the rows that are not among the EVENT_KEEP first of the table
\* in descending order of id.  The rows are kept here in ascending order of
\* id, so those are the last EVENT_KEEP rows.
add_event(rows, seq, event_type, details, status) ==
    LET all == Append(rows, [id |-> seq + 1, event_type |-> event_type,
                             details |-> details, status |-> status])
        n == Len(all)
    IN  IF n > EVENT_KEEP THEN SubSeq(all, n - EVENT_KEEP + 1, n) ELSE all

\* the tracker rows after add_event, as the two variables of table events;
\* when the store fails the error is logged and no row is added (lines 58-59)
AddEventVars(event_type, details, status) ==
    IF fs.db_ok
    THEN /\ events' = add_event(events, event_seq, event_type, details, status)
         /\ event_seq' = event_seq + 1
    ELSE UNCHANGED <<events, event_seq>>

\* the groups the tick loop extracts for the ready keys, lines 464-467: a key
\* takes the group filed under its folder unless an earlier ready key took it
RECURSIVE ReadyNotifications(_, _)
ReadyNotifications(ks, groups) ==
    IF ks = <<>> THEN <<>>
    ELSE LET folder_path == Head(ks)[2]
         IN  IF folder_path \in DOMAIN groups
             THEN <<[root |-> folder_path, data |-> groups[folder_path]]>>
                  \o ReadyNotifications(Tail(ks), Drop(groups, {folder_path}))
             ELSE ReadyNotifications(Tail(ks), groups)

\* a notification that would take the bulk form for one folder too
GroupedNotificationBulkOnly(ready_notifications) ==
    [form |-> "bulk", groups |-> ready_notifications]

\* _send_multi_grouped_notification, lines 482-491: the single-folder form
\* for one group, else the bulk form.  The record keeps the groups the call
\* was given: the single-folder form lists their paths (lines 563-620), the
\* bulk form their counts per folder (lines 493-561)
GroupedNotification(ready_notifications) ==
    IF Len(ready_notifications) = 1
    THEN [form |-> "single", groups |-> ready_notifications]
    ELSE [form |-> "bulk", groups |-> ready_notifications]

\* a notification call that would never raise
SendOutcomesNoRaise(ready_notifications) == {"sent"}

\* how the call of line 473 may end: it is made only with a ready group, it
\* builds the embed and starts the sender thread (line 89), and it raises
\* when the thread cannot be started
SendOutcomes(ready_notifications) ==
    IF ready_notifications = <<>> THEN {"sent"} ELSE {"sent", "raised"}

\* _process_scan_queue, one pass of the loop (lines 449-480): the ready keys
\* and their groups leave the two maps under the lock (lines 453-469); then
\* the notification is sent (line 473) and the keys are submitted (lines
\* 475-477), unless the notification call raised: the except clause of line
\* 478 then ends the pass
Tick ==
    LET ready == SelectIdx(pending_scans, ReadyIdx)
        to_trigger == [i \in 1..Len(ready) |-> ready[i].key]
        ready_notifications == ReadyNotifications(to_trigger, pending_notifications)
        taken == {ready_notifications[i].root : i \in 1..Len(ready_notifications)}
        hit == {to_trigger[i] : i \in 1..Len(to_trigger)}
    IN  /\ pending_scans' =
              SelectIdx(pending_scans, (1..Len(pending_scans)) \ ReadyIdx)
        /\ pending_notifications' = Drop(pending_notifications, taken)
        /\ \E outcome \in SendOutcomes(ready_notifications) :
              IF outcome = "raised"
              THEN UNCHANGED <<delivered, tasks, burst>>
              ELSE /\ delivered' =
                        IF ready_notifications = <<>> THEN delivered
                        ELSE Append(delivered, GroupedNotification(ready_notifications))
                   /\ tasks' = tasks \o [i \in 1..Len(to_trigger) |->
                                 Task(to_trigger[i][1], to_trigger[i][2], "queued", FALSE)]
                   /\ burst' = [k \in Keys |->
                                 IF k \in hit THEN [burst[k] EXCEPT !.disp = @ + 1]
                                 ELSE burst[k]]
        /\ UNCHANGED <<setupVars, envVars, now, last_enroll, cacheVars, trackerVars,
                       serverVars, eventVars, is_scanning, sw, counters>>

\* a task without position i
RemoveAt(s, i) == SelectIdx(s, (1..Len(s)) \ {i})

\* the tasks a worker of scan_monitor_executor is running
Running(ts) == {i \in 1..Len(ts) : ts[i].st = "waiting" /\ ~ts[i].forced}

\* the queued task the executor starts next
NextQueued(ts) ==
    LET q == {i \in 1..Len(ts) : ts[i].st = "queued"}
    IN  IF q = {} THEN 0 ELSE CHOOSE i \in q : \A j \in q : i <= j

\* _trigger_plex_scan up to the accepted request (lines 656-665): the refresh
\* request is sent whatever other requests of the section are still waited for
\* on; accepted, the server starts a refresh and the call goes on to wait
PlexRequest(key, accepted, forced, rest) ==
    IF ~accepted
       THEN /\ tasks' = rest
            /\ UNCHANGED <<activities, events, event_seq>>
       ELSE /\ tasks' = Append(rest, Task(key[1], key[2], "waiting", forced))
            /\ activities' = activities \cup {key[1]}
            /\ AddEventVars("Scan Triggered", key[2], "Plex")

\* _trigger_jellyfin_emby_scan, lines 636-654: the request is posted and the
\* call returns, with a row in table events when the server accepted it
JellyfinEmbyRequest(key, accepted, rest) ==
    /\ tasks' = rest
    /\ UNCHANGED activities
    /\ IF accepted
       THEN AddEventVars("Scan Triggered", key[2], SERVER_TYPE)
       ELSE UNCHANGED <<events, event_seq>>

\* whether _do_trigger_scan sends a refresh request, lines 625-634
RequestSent == ~DRY_RUN /\ SERVER_TYPE \in {"plex", "jellyfin", "emby"}

\* _do_trigger_scan, lines 622-634: with DRY_RUN the call logs and returns
DoTriggerScan(key, accepted, forced, rest) ==
    IF DRY_RUN
    THEN /\ tasks' = rest
         /\ UNCHANGED <<activities, events, event_seq>>
    ELSE IF SERVER_TYPE = "plex" THEN PlexRequest(key, accepted, forced, rest)
    ELSE IF SERVER_TYPE \in {"jellyfin", "emby"}
    THEN JellyfinEmbyRequest(key, accepted, rest)
    ELSE /\ tasks' = rest
         /\ UNCHANGED <<activities, events, event_seq>>

\* a worker of scan_monitor_executor takes the next queued task
TaskStart ==
    LET i == NextQueued(tasks)
    IN  /\ i # 0
        /\ Cardinality(Running(tasks)) < MONITOR_WORKERS
        /\ \E accepted \in BOOLEAN :
              DoTriggerScan(<<tasks[i].lib, tasks[i].folder>>, accepted, FALSE,
                            RemoveAt(tasks, i))
        /\ counters' = [counters EXCEPT !.requested = @ \/ RequestSent]
        /\ UNCHANGED <<setupVars, envVars, now, pending_scans, pending_notifications,
                       last_enroll, burst, delivered, server_index, cacheVars,
                       stuck_files, last_ret, eventVars, is_scanning, sw>>

\* _trigger_plex_scan, lines 672-688: a poll finds no refresh of the section
TaskDone(i) ==
    /\ i \in 1..Len(tasks)
    /\ tasks[i].st = "waiting"
    /\ tasks[i].lib \notin activities
    /\ tasks' = RemoveAt(tasks, i)
    /\ UNCHANGED <<setupVars, envVars, now, pending_scans, pending_notifications, last_enroll, burst, delivered,
                   cacheVars, trackerVars, serverVars, eventVars, is_scanning,
                   sw, counters>>

\* a caller that would pass force=False
ScanLibraryForceOff == FALSE

\* the force argument of web.scan_library, web.py line 263
ScanLibraryForce == TRUE

\* trigger_scan(library_id, folder_path, force), lines 432-443: forced, the
\* dispatch runs in the caller before the call returns; else the key's time
\* becomes now
trigger_scan(key, force, accepted) ==
    IF force
    THEN /\ DoTriggerScan(key, accepted, TRUE, tasks)
         /\ counters' = [counters EXCEPT
                           !.forced = @ + 1,
                           !.requested = @ \/ RequestSent,
                           !.forced_age =
                               IF key \in PendingKeys(pending_scans)
                               THEN now - PendingTime(pending_scans, key) ELSE -1]
         /\ UNCHANGED <<pending_scans, last_enroll, burst>>
    ELSE /\ pending_scans' = EnqueueScan(pending_scans, key)
         /\ NoteEnroll({key})
         /\ counters' = [counters EXCEPT !.forced = @ + 1]
         /\ UNCHANGED <<tasks, activities, events, event_seq>>

\* web.scan_library: trigger_scan(force=True) for a location of the section;
\* the dashboard serves one request at a time
ForceScan(key) ==
    /\ counters.forced < MaxForced
    /\ is_library_root(key[1], key[2])
    /\ \A i \in 1..Len(tasks) : ~tasks[i].forced
    /\ \E accepted \in BOOLEAN : trigger_scan(key, ScanLibraryForce, accepted)
    /\ UNCHANGED <<setupVars, envVars, now, pending_notifications, delivered,
                   server_index, cacheVars, stuck_files, last_ret, eventVars,
                   is_scanning, sw>>

\* a webhook or the file browser names a directory: trigger_scan without force
EnrollDir(key) ==
    /\ pending_scans' = EnqueueScan(pending_scans, key)
    /\ NoteEnroll({key})
    /\ counters' = [counters EXCEPT !.other = TRUE]
    /\ UNCHANGED <<setupVars, envVars, now, pending_notifications, tasks, delivered, cacheVars, trackerVars, serverVars,
                   eventVars, is_scanning, sw>>

\* the server ends the refresh of a section
ServerFinish(lib) ==
    /\ lib \in activities
    /\ activities' = activities \ {lib}
    /\ UNCHANGED <<setupVars, envVars, now, schedVars, server_index, cacheVars, trackerVars,
                   eventVars, is_scanning, sw, counters>>

\* time passes
Advance ==
    /\ now < MaxTime
    /\ now' = now + 1
    /\ UNCHANGED <<setupVars, envVars, schedVars, serverVars, cacheVars, trackerVars, eventVars,
                   is_scanning, sw, counters>>


(***************************************************************************)
(* StuckFileTracker (models.py).  Every method runs under self.lock and    *)
(* commits one transaction.                                                *)
(***************************************************************************)
\* an increment_attempt that would give up at max_retries, not past it
increment_attempt_at_limit(rows, file_path) ==
    LET attempts == rows[file_path] + 1
    IN  [rows |-> [rows EXCEPT ![file_path] = attempts],
         giveUp |-> attempts >= max_retries]

\* an increment_attempt that would not write the row
increment_attempt_no_store(rows, file_path) ==
    LET attempts == rows[file_path] + 1
    IN  [rows |-> rows, giveUp |-> attempts > max_retries]

\* increment_attempt, lines 91-103: the row's new attempts and the result
increment_attempt(rows, file_path) ==
    LET attempts == rows[file_path] + 1
    IN  [rows |-> [rows EXCEPT ![file_path] = attempts],
         giveUp |-> attempts > max_retries]

\* a clear_entry whose DELETE would lack the WHERE clause
clear_entry_everything(rows, file_path) == [p \in DOMAIN rows |-> 0]

\* clear_entry, line 114
clear_entry(rows, file_path) == [rows EXCEPT ![file_path] = 0]

\* clear_all_stuck, line 140
clear_all_stuck(rows) == [p \in DOMAIN rows |-> 0]

\* an increment_attempt that would give up on a path when the store fails
increment_attempt_call_gives_up(rows, file_path) ==
    IF fs.db_ok THEN increment_attempt(rows, file_path)
    ELSE [rows |-> rows, giveUp |-> TRUE]

\* increment_attempt as a caller sees it, lines 85-106: when the store fails
\* the error is logged, no row is written and the result is False
increment_attempt_call(rows, file_path) ==
    IF fs.db_ok THEN increment_attempt(rows, file_path)
    ELSE [rows |-> rows, giveUp |-> FALSE]

\* clear_entry as a caller sees it, lines 110-118: when the store fails the
\* error is logged and the row stays
clear_entry_call(rows, file_path) ==
    IF fs.db_ok THEN clear_entry(rows, file_path) ELSE rows

\* the calls counted for the paths after clear_entry(file_path)
CallsAfterClear(file_path) ==
    IF fs.db_ok THEN [calls EXCEPT ![file_path] = 0] ELSE calls

\* history.db becomes unusable (locked by another process, a full or
\* read-only disk), or usable again
StoreToggle ==
    /\ fs' = [fs EXCEPT !.db_ok = ~@]
    /\ UNCHANGED <<setupVars, del, call, now, schedVars, serverVars, cacheVars,
                   trackerVars, eventVars, is_scanning, sw, counters>>

\* a caller runs increment_attempt(file_path)
IncrementAttempt(file_path) ==
    LET r == increment_attempt_call(stuck_files, file_path)
    IN  /\ stuck_files[file_path] < MaxAttempts
        /\ stuck_files' = r.rows
        /\ last_ret' = [last_ret EXCEPT ![file_path] = r.giveUp]
        /\ calls' = [calls EXCEPT ![file_path] = @ + 1]
        /\ UNCHANGED <<setupVars, envVars, now, schedVars, serverVars, cacheVars, events,
                       event_seq, new_at, is_scanning, sw, counters>>

\* a caller runs clear_entry(file_path)
ClearEntry(file_path) ==
    /\ stuck_files' = clear_entry_call(stuck_files, file_path)
    /\ calls' = CallsAfterClear(file_path)
    /\ UNCHANGED <<setupVars, envVars, now, schedVars, serverVars, cacheVars, events,
                   event_seq, last_ret, new_at, is_scanning, sw, counters>>

\* the kinds of rows the callers of add_event write
EventKinds == {"Scan Triggered", "Health Check Passed"}

\* a caller runs add_event
AddEvent ==
    /\ event_seq < counters.log0 + MaxEvents
    /\ \E kind \in EventKinds, details \in {RootM, RootT} :
          AddEventVars(kind, details, "Plex")
    /\ UNCHANGED <<setupVars, envVars, now, schedVars, serverVars, cacheVars, stuck_files,
                   last_ret, eventVars, is_scanning, sw, counters>>

\* /api/history/clear, web.py lines 155-165: every row of table events is
\* deleted; the AUTOINCREMENT counter stays
ClearEvents ==
    /\ events # <<>>
    /\ events' = <<>>
    /\ counters' = [counters EXCEPT !.cleared_at = event_seq]
    /\ UNCHANGED <<setupVars, envVars, now, schedVars, serverVars, cacheVars, stuck_files,
                   event_seq, last_ret, eventVars, is_scanning, sw>>

(***************************************************************************)
(* The library cache: cache_library_files, is_in_library.                  *)
(***************************************************************************)
\* library_id in self.library_files and self.library_files[library_id]
CacheFilled(library_id) ==
    /\ library_files[library_id].present
    /\ library_files[library_id].files # {}

\* _is_in_plex_api: the server is asked for the file
ProbePath(file_path, library_id) ==
    /\ library_id # NoLib
    /\ normpath(file_path) \in server_index[library_id]

\* is_in_library, lines 271-301: the cached set when it is filled, else the probe
is_in_library(file_path) ==
    LET library_id == get_library_id_for_path(file_path).id
    IN  IF library_id # NoLib /\ CacheFilled(library_id)
        THEN normpath(file_path) \in library_files[library_id].files
        ELSE ProbePath(file_path, library_id)

\* _trigger_cache_fill as is_in_library calls it, lines 284-285 and 256-262
LoadingAfterLookup(file_path) ==
    LET library_id == get_library_id_for_path(file_path).id
    IN  IF library_id # NoLib /\ ~CacheFilled(library_id)
        THEN loading_libraries \cup {library_id}
        ELSE loading_libraries

\* the empty cache: self.library_files.clear()
NoCache == [l \in LibIds |-> Absent]

\* _background_cache_fill starts: cache_library_files returns at once when the
\* set is filled or the fetch fails, else it holds the fetched set
BgFillBegin(lib) ==
    /\ lib \in loading_libraries
    /\ ~\E f \in fills : f.lib = lib /\ f.by = "bg"
    /\ \E fetched \in BOOLEAN :
          IF CacheFilled(lib) \/ ~fetched
          THEN /\ loading_libraries' = loading_libraries \ {lib}
               /\ fills' = fills
          ELSE /\ fills' = fills \cup {[lib |-> lib, by |-> "bg",
                                        new_files |-> server_index[lib]]}
               /\ loading_libraries' = loading_libraries
    /\ UNCHANGED <<setupVars, envVars, now, schedVars, serverVars, library_files, trackerVars,
                   eventVars, is_scanning, sw, counters>>

\* cache_library_files, lines 248-249, then the finally of _background_cache_fill
BgFillEnd(lib) ==
    /\ \E f \in fills :
          /\ f.lib = lib /\ f.by = "bg"
          /\ library_files' = [library_files EXCEPT ![lib] = Cached(f.new_files)]
          /\ fills' = fills \ {f}
    /\ loading_libraries' = loading_libraries \ {lib}
    /\ UNCHANGED <<setupVars, envVars, now, schedVars, serverVars, trackerVars, eventVars,
                   is_scanning, sw, counters>>

\* the server indexes a file (a refresh, or its own scheduled scan)
ServerIndexes(file_path) ==
    LET lib == get_library_id_for_path(file_path).id
    IN  /\ lib # NoLib
        /\ file_path \notin server_index[lib]
        /\ server_index' = [server_index EXCEPT ![lib] = @ \cup {file_path}]
        /\ UNCHANGED <<setupVars, envVars, now, schedVars, activities, cacheVars, trackerVars,
                       eventVars, is_scanning, sw, counters>>


(***************************************************************************)
(* The event path: submit_file_event('created' | 'moved') -> scan_file.    *)
(***************************************************************************)
\* a test that would let only resolved paths through
ProceedsResolvedOnly(found) == found # NoLib

\* the tests of lines 864 and 932, on the title or the id the path resolved
\* to: a path that resolved to no section is handled all the same unless the
\* server is Plex
Proceeds(found) == found # NoLib \/ SERVER_TYPE # "plex"

\* the stats argument of scan_file: None unless the caller passes a RunStats
NoStats == "None"
SomeStats == "RunStats"

\* a submit_file_event that would hand scan_file a RunStats
EventStatsGiven == SomeStats

\* the stats object submit_file_event hands to scan_file, line 812: none
EventStats == NoStats

\* lines 888-890: the optimistic insertion, made only when the section has a set
OptimisticAdd(cache, library_id, file_path) ==
    IF library_id \in DOMAIN cache /\ cache[library_id].present
    THEN [cache EXCEPT ![library_id].files = @ \cup {normpath(file_path)}]
    ELSE cache

\* lines 880-884: the path joins the added list of its target's group
NoteAdded(groups, target_path, library_title, file_path) ==
    LET g == IF target_path \in DOMAIN groups THEN groups[target_path]
             ELSE [NewGroup EXCEPT !.library_title = library_title]
    IN  Put(groups, target_path, [g EXCEPT !.added = Append(@, file_path)])

\* what check_file_health returns and the row it adds to table events, lines
\* 700-803: a healthy file, a failed read, a file ffprobe rejects
HealthResults ==
    {[status |-> "Healthy", error |-> "", event_type |-> "Health Check Passed",
      event_status |-> "Healthy"],
     [status |-> "Corrupt", error |-> "Incomplete/Read Error",
      event_type |-> "Health Check Failed", event_status |-> "Incomplete"],
     [status |-> "Corrupt", error |-> "Bitstream Error",
      event_type |-> "Health Check Failed", event_status |-> "Corrupt"]}

\* no check was made
NotChecked == [status |-> "Unknown", error |-> "", event_type |-> "", event_status |-> ""]

\* a handler that would go on with a file its check found unhealthy
is_unhealthy_never(health) == FALSE

\* line 851: not is_healthy
is_unhealthy(health) == health.status \notin {"Healthy", "Unknown"}

\* send_single_notification("Corrupt File Detected", ...), lines 854-858
CorruptNotification(file_path, health) ==
    [form |-> "event", groups |-> <<>>, title |-> "Corrupt File Detected",
     path |-> file_path, reason |-> health.error]

\* scan_file(file_path, stats), lines 825-894, for a media file that is not
\* ignored.  With HEALTH_CHECK on a file that is not in the library is checked
\* first, and an unhealthy one ends the handler with a notification.  With
\* stats None the calls stats.add_stuck_item (line 868) and
\* stats.add_missing_item (line 871) raise right after increment_attempt, which
\* ends the handler.
scan_media_file(file_path, stats) ==
    LET lib == get_library_id_for_path(file_path)
        known == is_in_library(file_path)
        checked == HEALTH_CHECK /\ ~known
        r == increment_attempt_call(stuck_files, file_path)
        target_path == TargetPath(lib.id, file_path)
        key == <<lib.id, target_path>>
        resolved == Proceeds(lib.title)
    IN  \E health \in IF checked THEN HealthResults ELSE {NotChecked} :
        /\ checked => event_seq < MaxEvents
        /\ \/ is_unhealthy(health)
           \/ known \/ ~resolved \/ stuck_files[file_path] < MaxAttempts
        /\ loading_libraries' = LoadingAfterLookup(file_path)
        /\ IF checked
           THEN AddEventVars(health.event_type, basename(file_path),
                             health.event_status)
           ELSE UNCHANGED <<events, event_seq>>
        /\ IF is_unhealthy(health)
           THEN /\ delivered' = Append(delivered, CorruptNotification(file_path, health))
                /\ UNCHANGED <<stuck_files, last_ret, calls, new_at, pending_scans,
                               pending_notifications, library_files, last_enroll,
                               burst>>
           ELSE /\ UNCHANGED delivered
                /\ IF known
                   THEN /\ stuck_files' = clear_entry_call(stuck_files, file_path)
                        /\ calls' = CallsAfterClear(file_path)
                        /\ UNCHANGED <<last_ret, new_at, pending_scans,
                                       pending_notifications, library_files,
                                       last_enroll, burst>>
                   ELSE IF resolved
                   THEN /\ stuck_files' = r.rows
                        /\ last_ret' = [last_ret EXCEPT ![file_path] = r.giveUp]
                        /\ calls' = [calls EXCEPT ![file_path] = @ + 1]
                        /\ new_at' = IF r.giveUp THEN new_at
                                     ELSE [new_at EXCEPT ![file_path] = now]
                        /\ IF stats # NoStats /\ ~r.giveUp
                           THEN /\ pending_notifications' =
                                      NoteAdded(pending_notifications, target_path,
                                                lib.title, file_path)
                                /\ library_files' =
                                      OptimisticAdd(library_files, lib.id, file_path)
                                /\ pending_scans' = EnqueueScan(pending_scans, key)
                                /\ NoteEnroll({key})
                           ELSE UNCHANGED <<pending_scans, pending_notifications,
                                            library_files, last_enroll, burst>>
                   ELSE UNCHANGED <<stuck_files, last_ret, calls, new_at,
                                    pending_scans, pending_notifications,
                                    library_files, last_enroll, burst>>
        /\ UNCHANGED <<setupVars, envVars, now, tasks, fills, serverVars,
                       is_scanning, sw, counters>>

\* scan_file, lines 828-842: a file of size 0 or without a media extension
\* ends the handler; the name is not looked at
EventCounts(file_path) == fs.kind[file_path] \in {"media", "hidden"}

\* scan_file(file_path, stats), lines 816-842: an ignored path, an empty file
\* or one that is no media file ends the handler at once
scan_file(file_path, stats) ==
    IF is_ignored(file_path) \/ ~EventCounts(file_path) THEN UNCHANGED vars
    ELSE scan_media_file(file_path, stats)

\* PlexWatcher.on_created / on_moved -> submit_file_event -> scan_file(file_path)
SubmitFileEvent(file_path) == scan_file(file_path, EventStats)

\* main.py --clear-stuck: clear_all_stuck on the same store
ClearAllStuck ==
    /\ \E p \in Files : stuck_files[p] # 0
    /\ fs.db_ok
    /\ stuck_files' = clear_all_stuck(stuck_files)
    /\ calls' = [p \in Files |-> 0]
    /\ UNCHANGED <<setupVars, envVars, now, schedVars, serverVars, cacheVars, events, event_seq,
                   last_ret, new_at, is_scanning, sw, counters>>


(***************************************************************************)
(* The deleted events: submit_file_event('deleted') -> handle_deletion.    *)
(***************************************************************************)
\* no handle_deletion call on a path; t0 is the time the sleep began; n,
\* sleeps and outcome are history: the calls made so far, the sleeps of the
\* last call and how it ended
NoDeletion == [pc |-> "idle", t0 |-> 0, n |-> 0, sleeps |-> 0, outcome |-> "none"]

\* os.path.exists of a media file under the scan path
path_exists(f, file_path) == f.mounted /\ file_path \in f.files

\* lines 910-914: the first scan path that is a text prefix of the path, or
\* <<>> for None
scan_root_of(file_path) ==
    LET idx == {i \in 1..Len(SCAN_PATHS) : StartsWith(file_path, SCAN_PATHS[i])}
    IN  IF idx = {} THEN <<>>
        ELSE SCAN_PATHS[CHOOSE i \in idx : \A j \in idx : i <= j]

\* a mount check that would never find the scan root missing
MountLostNever(f, scan_root) == FALSE

\* line 916: scan_root and not os.path.exists(scan_root)
MountLost(f, scan_root) == scan_root # <<>> /\ ~f.mounted

\* a re-check that would never find the file back
ReappearedNever(f, file_path) == FALSE

\* line 922: os.path.exists(file_path) after the sleep
Reappeared(f, file_path) == path_exists(f, file_path)

\* a removal that would leave the set as it is
OptimisticDiscardNothing(cache, library_id, file_path) == cache

\* lines 950-952: the optimistic removal, made only when the section has a set
OptimisticDiscard(cache, library_id, file_path) ==
    IF library_id \in DOMAIN cache /\ cache[library_id].present
    THEN [cache EXCEPT ![library_id].files = @ \ {normpath(file_path)}]
    ELSE cache

\* lines 944-948: the path joins the deleted list of its target's group
NoteDeleted(groups, target_path, library_title, file_path) ==
    LET title == IF library_title = NoLib THEN "Media" ELSE library_title
        g == IF target_path \in DOMAIN groups THEN groups[target_path]
             ELSE [NewGroup EXCEPT !.library_title = title]
    IN  Put(groups, target_path, [g EXCEPT !.deleted = Append(@, file_path)])

\* the end of a handle_deletion call
DeletionEnds(rec, how) == [rec EXCEPT !.pc = "idle", !.t0 = 0, !.outcome = how]

\* handle_deletion up to the sleep, lines 896-921: the first check of the
\* file, then the check of its scan root
DeleteBegin(file_path) ==
    LET rec == [del[file_path] EXCEPT !.n = @ + 1, !.sleeps = 0]
    IN  /\ del[file_path].pc = "idle"
        /\ del[file_path].n < MaxDeletes
        /\ del' = [del EXCEPT ![file_path] =
                     IF path_exists(fs, file_path) THEN DeletionEnds(rec, "exists")
                     ELSE IF MountLost(fs, scan_root_of(file_path))
                          THEN DeletionEnds(rec, "mount")
                          ELSE [rec EXCEPT !.pc = "sleeping", !.t0 = now,
                                           !.sleeps = 1]]
        /\ UNCHANGED <<setupVars, fs, call, now, schedVars, serverVars, cacheVars,
                       trackerVars, eventVars, is_scanning, sw, counters>>

\* handle_deletion after the sleep, lines 922-948: the re-check, the section,
\* the target and the entry in the deleted list
DeleteRecheck(file_path) ==
    LET lib == get_library_id_for_path(file_path)
        target_path == TargetPath(lib.id, file_path)
    IN  /\ del[file_path].pc = "sleeping"
        /\ now - del[file_path].t0 >= DELETE_WAIT
        /\ IF Reappeared(fs, file_path)
           THEN /\ del' = [del EXCEPT ![file_path] = DeletionEnds(@, "reappeared")]
                /\ UNCHANGED pending_notifications
           ELSE IF Proceeds(lib.id)
           THEN /\ pending_notifications' =
                      NoteDeleted(pending_notifications, target_path, lib.title,
                                  file_path)
                /\ del' = [del EXCEPT ![file_path].pc = "noted"]
           ELSE /\ del' = [del EXCEPT ![file_path] = DeletionEnds(@, "unresolved")]
                /\ UNCHANGED pending_notifications
        /\ UNCHANGED <<setupVars, fs, call, now, pending_scans, tasks, last_enroll,
                       burst, delivered, serverVars, cacheVars, trackerVars,
                       eventVars, is_scanning, sw, counters>>

\* handle_deletion, lines 950-952: the path leaves the set of its section
DeleteDiscard(file_path) ==
    LET lib == get_library_id_for_path(file_path)
    IN  /\ del[file_path].pc = "noted"
        /\ library_files' = OptimisticDiscard(library_files, lib.id, file_path)
        /\ del' = [del EXCEPT ![file_path].pc = "discarded"]
        /\ UNCHANGED <<setupVars, fs, call, now, schedVars, serverVars,
                       loading_libraries, fills, trackerVars, eventVars,
                       is_scanning, sw, counters>>

\* handle_deletion, line 954: trigger_scan(library_id, target_path)
DeleteEnroll(file_path) ==
    LET lib == get_library_id_for_path(file_path)
        key == <<lib.id, TargetPath(lib.id, file_path)>>
    IN  /\ del[file_path].pc = "discarded"
        /\ pending_scans' = EnqueueScan(pending_scans, key)
        /\ NoteEnroll({key})
        /\ del' = [del EXCEPT ![file_path] = DeletionEnds(@, "deleted")]
        /\ UNCHANGED <<setupVars, fs, call, now, pending_notifications, tasks,
                       delivered, serverVars, cacheVars, trackerVars, eventVars,
                       is_scanning, sw, counters>>

\* a file leaves the disk or comes back
FileChanges(file_path) ==
    /\ fs' = [fs EXCEPT !.files = IF file_path \in @ THEN @ \ {file_path}
                                  ELSE @ \cup {file_path}]
    /\ UNCHANGED <<setupVars, del, call, now, schedVars, serverVars, cacheVars,
                   trackerVars, eventVars, is_scanning, sw, counters>>

\* the mount of the scan path goes or comes back
MountChanges ==
    /\ fs' = [fs EXCEPT !.mounted = ~@]
    /\ UNCHANGED <<setupVars, del, call, now, schedVars, serverVars, cacheVars,
                   trackerVars, eventVars, is_scanning, sw, counters>>


(***************************************************************************)
(* The sweep: run_scan and scan_directory.                                 *)
(***************************************************************************)
\* the locals of a run_scan call that is not running; notes, enrolled,
\* was_stuck and raised are history: the notifications the call sent, the keys
\* it enrolled, the paths it met with attempts already past max_retries, and
\* the paths whose attempts its calls of increment_attempt raised
IdleSweep ==
    [pc |-> "idle", i |-> 0, todo |-> {}, total_scanned |-> 0, total_missing |-> 0,
     missing_items |-> {}, stuck_items |-> {}, folders_to_scan |-> {},
     notes |-> <<>>, enrolled |-> {}, was_stuck |-> {}, raised |-> {}]

\* the directories between a scan path and a file under it
AncestorDirs(scan_path, file_path) ==
    {SubSeq(file_path, 1, j - 1) :
        j \in {i \in Len(scan_path) + 2..Len(file_path) : file_path[i] = "/"}}

\* a walk that would count the empty files too
SweepCountsEmpty(file_path) == fs.kind[file_path] \in {"media", "empty"}

\* the filters of the walk before increment_scanned, lines 984-1004 and
\* 1081-1104: the name does not begin with ".", the extension is a media
\* extension, the size is not 0
SweepCounts(file_path) == fs.kind[file_path] = "media"

\* the files a sweep counts: those under a scan path that pass the filters,
\* are not ignored and lie in no ignored directory (lines 966, 993, 1085, 1089)
WalkedFiles ==
    {f \in Files :
        \E i \in 1..Len(SCAN_PATHS) :
            /\ StartsWith(f, SCAN_PATHS[i])
            /\ SweepCounts(f)
            /\ ~is_ignored(f)
            /\ \A d \in AncestorDirs(SCAN_PATHS[i], f) : ~is_ignored(d)}

\* the target a sweep files a missing file under: run_scan handles the files
\* lying directly in a scan path itself and takes their parent folder (lines
\* 1122-1124); scan_directory takes the file when the parent is a section root
\* (line 1028)
SweepTarget(library_id, file_path) ==
    IF \E i \in 1..Len(SCAN_PATHS) : dirname(file_path) = normpath(SCAN_PATHS[i])
    THEN dirname(file_path)
    ELSE TargetPath(library_id, file_path)

\* a safety check that would trip one item late
MassDeletionLate(abort_on, total_missing) ==
    abort_on /\ total_missing > DELETION_THRESHOLD + 1

\* the mass deletion safety check, line 1135
MassDeletion(abort_on, total_missing) ==
    abort_on /\ total_missing > DELETION_THRESHOLD

\* a sweep that would ignore the result of increment_attempt
SweepGivesUpNever(giveUp) == FALSE

\* whether a sweep records a missing file as stuck, lines 1021-1024
SweepGivesUp(giveUp) == giveUp

\* run_scan, lines 1037-1039: the test of the running flag
SweepEnter(t) ==
    /\ sw[t].pc = "idle"
    /\ counters.sweeps[t] < MaxSweeps
    /\ counters' = [counters EXCEPT !.sweeps[t] = @ + 1]
    /\ sw' = IF is_scanning THEN sw ELSE [sw EXCEPT ![t].pc = "entered"]
    /\ UNCHANGED <<setupVars, envVars, now, schedVars, serverVars, cacheVars, trackerVars,
                   eventVars, is_scanning>>

\* run_scan, lines 1041-1054: the flag is set, the locals made, the cache cleared
SweepBegin(t) ==
    /\ sw[t].pc = "entered"
    /\ is_scanning' = TRUE
    /\ library_files' = NoCache
    /\ sw' = [sw EXCEPT ![t] = [IdleSweep EXCEPT !.pc = "prebuild", !.i = 1]]
    /\ UNCHANGED <<setupVars, envVars, now, schedVars, serverVars, loading_libraries, fills,
                   trackerVars, eventVars, counters>>

\* the position after the pre-cache of section i: the next section, or the walk
AfterPrebuild(rec) ==
    IF rec.i < Len(library_sections_cache)
    THEN [rec EXCEPT !.i = @ + 1, !.pc = "prebuild"]
    ELSE [rec EXCEPT !.i = 0, !.pc = "walk", !.todo = WalkedFiles]

\* run_scan, lines 1057-1058: cache_library_files(section['id']) up to the
\* fetch; it returns at once when the set is filled or the fetch fails
SweepCacheFetch(t) ==
    LET lib == library_sections_cache[sw[t].i].id
    IN  /\ sw[t].pc = "prebuild"
        /\ \E fetched \in BOOLEAN :
              IF CacheFilled(lib) \/ ~fetched
              THEN /\ sw' = [sw EXCEPT ![t] = AfterPrebuild(@)]
                   /\ fills' = fills
              ELSE /\ sw' = [sw EXCEPT ![t].pc = "caching"]
                   /\ fills' = fills \cup {[lib |-> lib, by |-> t,
                                            new_files |-> server_index[lib]]}
        /\ UNCHANGED <<setupVars, envVars, now, schedVars, serverVars, library_files,
                       loading_libraries, trackerVars, eventVars, is_scanning,
                       counters>>

\* cache_library_files, lines 248-249: the fetched set replaces the section's set
SweepCacheStore(t) ==
    /\ sw[t].pc = "caching"
    /\ \E f \in fills :
          /\ f.by = t
          /\ library_files' = [library_files EXCEPT ![f.lib] = Cached(f.new_files)]
          /\ fills' = fills \ {f}
    /\ sw' = [sw EXCEPT ![t] = AfterPrebuild(@)]
    /\ UNCHANGED <<setupVars, envVars, now, schedVars, serverVars, loading_libraries,
                   trackerVars, eventVars, is_scanning, counters>>

\* one file of the walk, lines 1007-1033 (scan_directory) and 1106-1126
\* (run_scan, for the files lying directly in a scan path); with HEALTH_CHECK
\* on a file that is not in the library is checked first, and an unhealthy
\* one is only counted as corrupt
SweepFile(t, file_path) ==
    LET lib == get_library_id_for_path(file_path)
        known == is_in_library(file_path)
        r == increment_attempt_call(stuck_files, file_path)
        rec == [sw[t] EXCEPT !.todo = @ \ {file_path}, !.total_scanned = @ + 1]
        up == IF r.rows[file_path] > stuck_files[file_path] THEN {file_path} ELSE {}
        met == IF stuck_files[file_path] > max_retries THEN {file_path} ELSE {}
        checked == HEALTH_CHECK /\ ~known
    IN  \E health \in IF checked THEN HealthResults ELSE {NotChecked} :
        /\ sw[t].pc = "walk"
        /\ file_path \in sw[t].todo
        /\ checked => event_seq < MaxEvents
        /\ \/ is_unhealthy(health)
           \/ known \/ lib.title = NoLib \/ stuck_files[file_path] < MaxAttempts
        /\ loading_libraries' = LoadingAfterLookup(file_path)
        /\ IF checked
           THEN AddEventVars(health.event_type, basename(file_path),
                             health.event_status)
           ELSE UNCHANGED <<events, event_seq>>
        /\ IF is_unhealthy(health)
           THEN /\ sw' = [sw EXCEPT ![t] = rec]
                /\ UNCHANGED <<stuck_files, last_ret, calls>>
           ELSE IF known
           THEN /\ stuck_files' = clear_entry_call(stuck_files, file_path)
                /\ calls' = CallsAfterClear(file_path)
                /\ sw' = [sw EXCEPT ![t] = rec]
                /\ UNCHANGED last_ret
           ELSE IF lib.title # NoLib
           THEN /\ stuck_files' = r.rows
                /\ last_ret' = [last_ret EXCEPT ![file_path] = r.giveUp]
                /\ calls' = [calls EXCEPT ![file_path] = @ + 1]
                /\ sw' = [sw EXCEPT ![t] =
                            IF SweepGivesUp(r.giveUp)
                            THEN [rec EXCEPT !.stuck_items = @ \cup {file_path},
                                             !.was_stuck = @ \cup met,
                                             !.raised = @ \cup up]
                            ELSE [rec EXCEPT
                                    !.raised = @ \cup up,
                                    !.missing_items = @ \cup {file_path},
                                    !.total_missing = @ + 1,
                                    !.folders_to_scan = @ \cup
                                        {<<lib.id, SweepTarget(lib.id, file_path)>>}]]
           ELSE /\ sw' = [sw EXCEPT ![t] = rec]
                /\ UNCHANGED <<stuck_files, last_ret, calls>>
        /\ UNCHANGED <<setupVars, envVars, now, schedVars, serverVars, library_files,
                       fills, new_at, is_scanning, counters>>

\* run_scan after the walk, lines 1134-1155: the safety check, then the
\* pending summary, the enrollments in path order and the final summary
SweepDecide(t) ==
    LET rec == sw[t]
        sorted_folders == SortedFolders(rec.folders_to_scan)
    IN  /\ rec.pc = "walk"
        /\ rec.todo = {}
        /\ IF MassDeletion(config.ABORT_ON_MASS_DELETION, rec.total_missing)
           THEN /\ sw' = [sw EXCEPT ![t].pc = "finally",
                                    ![t].notes = Append(@, "aborted")]
                /\ counters' = [counters EXCEPT !.tripped = TRUE]
                /\ UNCHANGED <<pending_scans, last_enroll, burst, new_at>>
           ELSE IF rec.total_missing > 0
           THEN /\ pending_scans' = EnqueueAll(pending_scans, sorted_folders)
                /\ NoteEnroll(rec.folders_to_scan)
                /\ new_at' = [p \in Files |->
                                IF p \in rec.missing_items THEN now ELSE new_at[p]]
                /\ counters' = [counters EXCEPT !.other = TRUE]
                /\ sw' = [sw EXCEPT ![t].pc = "finally",
                                    ![t].enrolled = rec.folders_to_scan,
                                    ![t].notes = @ \o <<"pending", "summary">>]
           ELSE /\ sw' = [sw EXCEPT ![t].pc = "finally",
                                    ![t].notes = Append(@, "summary")]
                /\ UNCHANGED <<pending_scans, last_enroll, burst, new_at, counters>>
        /\ UNCHANGED <<setupVars, envVars, now, pending_notifications, tasks, delivered, serverVars, cacheVars, trackerVars, calls,
                       is_scanning>>

\* an error that would leave run_scan past its finally clause
SweepErrorEscapes(t) ==
    /\ sw[t].pc = "walk" \/ (sw[t].pc = "prebuild" /\ sw[t].i = 1)
    /\ sw' = [sw EXCEPT ![t] = IdleSweep]
    /\ UNCHANGED <<setupVars, envVars, now, schedVars, serverVars, cacheVars, trackerVars,
                   eventVars, is_scanning, counters>>

\* run_scan, lines 1157-1158: a call in the try block raises (the sections
\* cannot be listed at line 1054, a worker's future re-raises at line 1132);
\* the error is logged and the finally clause runs.  cache_library_files
\* catches its own errors.
SweepError(t) ==
    /\ sw[t].pc = "walk" \/ (sw[t].pc = "prebuild" /\ sw[t].i = 1)
    /\ sw' = [sw EXCEPT ![t].pc = "finally", ![t].notes = Append(@, "error")]
    /\ UNCHANGED <<setupVars, envVars, now, schedVars, serverVars, cacheVars, trackerVars,
                   eventVars, is_scanning, counters>>

\* run_scan, the finally clause, lines 1159-1168
SweepFinally(t) ==
    /\ sw[t].pc = "finally"
    /\ is_scanning' = FALSE
    /\ library_files' = IF config.WATCH_MODE THEN library_files ELSE NoCache
    /\ sw' = [sw EXCEPT ![t] = IdleSweep]
    /\ UNCHANGED <<setupVars, envVars, now, schedVars, serverVars, loading_libraries, fills,
                   trackerVars, eventVars, counters>>

(***************************************************************************)
(* The path functions on their own: get_library_id_for_path over a section *)
(* cache, and the refresh target each handler computes for a file.         *)
(***************************************************************************)
\* no call of a path function
NoCall == [fn |-> "none"]

\* the locations the sections of a cache under study may list
Locations == {RootM, RootM \o <<"/">>, DirA, RootT}

\* the lists of one or two locations
LocationLists ==
    {<<a>> : a \in Locations} \cup {<<a, b>> : a \in Locations, b \in Locations}

\* the section caches under study: one or two sections
SectionCaches ==
    LET one(l) == [id |-> "1", title |-> "Movies", type |-> "movie", locations |-> l]
        two(l) == [id |-> "2", title |-> "TV", type |-> "show", locations |-> l]
    IN  {<<one(l)>> : l \in LocationLists}
        \cup {<<one(l), two(k)>> : l \in LocationLists, k \in LocationLists}

\* a file lying directly in the section root that is the scan path
F0 == RootM \o <<"/", "z">>

\* the paths resolved: files, a folder written with a trailing separator, a
\* root, a sibling of a root that shares its text, a path outside
ResolvedPaths ==
    {F0, F1, F2, RootT \o <<"/", "y">>, DirA \o <<"/">>, RootM,
     RootM \o <<"a", "/", "x">>, <<"/", "b", "/", "x">>}

\* the media files a target is computed for
TargetFiles == {F0, F1, F2, RootT \o <<"/", "y">>}

\* the handlers that compute a refresh target
Handlers == {"scan_file", "handle_deletion", "run_scan"}

\* the calls under study, not yet made
PendingCalls ==
    {[fn |-> "resolve", sections |-> s, path |-> p, done |-> FALSE, ret |-> NoSection] :
        s \in SectionCaches, p \in ResolvedPaths}
    \cup {[fn |-> h, sections |-> library_sections_cache, path |-> p,
           done |-> FALSE, ret |-> <<>>] :
            h \in Handlers, p \in TargetFiles}

\* get_library_id_for_path is called
Resolve ==
    /\ call.fn = "resolve"
    /\ ~call.done
    /\ call' = [call EXCEPT !.done = TRUE, !.ret = resolve(call.sections, call.path)]
    /\ UNCHANGED <<setupVars, fs, del, now, schedVars, serverVars, cacheVars,
                   trackerVars, eventVars, is_scanning, sw, counters>>

\* a handler computes the target of a missing, new or deleted file of a
\* section: scan_file (lines 875-878), handle_deletion (lines 934-942),
\* run_scan for a file its walk meets (lines 1025-1028 and 1122-1124)
ComputeTarget ==
    LET library_id == get_library_id_for_path(call.path).id
    IN  /\ call.fn \in Handlers
        /\ ~call.done
        /\ library_id # NoLib
        /\ call.fn = "run_scan" => scan_root_of(call.path) # <<>>
        /\ call' = [call EXCEPT !.done = TRUE,
                                !.ret = IF call.fn = "run_scan"
                                        THEN SweepTarget(library_id, call.path)
                                        ELSE TargetPath(library_id, call.path)]
        /\ UNCHANGED <<setupVars, fs, del, now, schedVars, serverVars, cacheVars,
                       trackerVars, eventVars, is_scanning, sw, counters>>

(***************************************************************************)
(* pending_scans_lock: the handlers and the tick loop step by step, each   *)
(* region of the lock entered in one step and left in another.             *)
(***************************************************************************)
\* no thread holds the lock
NoOwner == <<"none">>

\* the threads that run handle_deletion and scan_file on a path
LockHandlers == {<<kind, p>> : kind \in {"del", "scan"}, p \in Files}

\* the lock and the threads that take it: the worker thread of
\* _process_scan_queue with its locals, the thread of a webhook that calls
\* trigger_scan, and the position of the scan_file call on each path (that of
\* a handle_deletion call is kept in del)
LockCall ==
    [fn |-> "pending_scans_lock", owner |-> NoOwner,
     worker |-> [pc |-> "sleep", to_trigger |-> <<>>, ready_notifications |-> <<>>],
     hook |-> [pc |-> "idle", key |-> <<>>],
     scan |-> [p \in Files |-> "idle"]]

\* a with block that would not release the lock at its end
KeepLock(t) == t

\* the end of a with self.pending_scans_lock block
Release(t) == NoOwner

\* the position of a thread
PosOf(c, d, t) ==
    IF t = <<"worker">> THEN c.worker.pc
    ELSE IF t = <<"hook">> THEN c.hook.pc
    ELSE IF t[1] = "del" THEN d[t[2]].pc
    ELSE c.scan[t[2]]

\* a handler thread moves to position pc, the lock going to owner
Moved(t, pc, owner) ==
    /\ del' = IF t[1] = "del" THEN [del EXCEPT ![t[2]].pc = pc] ELSE del
    /\ call' = [call EXCEPT !.owner = owner,
                            !.scan = IF t[1] = "scan" THEN [@ EXCEPT ![t[2]] = pc]
                                     ELSE @]

\* handle_deletion after the sleep, lines 922-932: the re-check and the section
DeleteResolve(file_path) ==
    LET lib == get_library_id_for_path(file_path)
    IN  /\ call.fn = "pending_scans_lock"
        /\ del[file_path].pc = "sleeping"
        /\ now - del[file_path].t0 >= DELETE_WAIT
        /\ del' = [del EXCEPT ![file_path] =
                     IF Reappeared(fs, file_path) THEN DeletionEnds(@, "reappeared")
                     ELSE IF Proceeds(lib.id) THEN [@ EXCEPT !.pc = "resolved"]
                     ELSE DeletionEnds(@, "unresolved")]
        /\ UNCHANGED <<setupVars, fs, call, now, schedVars, serverVars, cacheVars,
                       trackerVars, eventVars, is_scanning, sw, counters>>

\* scan_file as the sweep calls it on a file, lines 843-872: the file is not
\* in the library (the probe of the server), HEALTH_CHECK is off, and
\* increment_attempt counts the attempt in the store
ScanResolve(file_path) ==
    LET lib == get_library_id_for_path(file_path)
        r == increment_attempt_call(stuck_files, file_path)
    IN  /\ call.fn = "pending_scans_lock"
        /\ call.scan[file_path] = "idle"
        /\ path_exists(fs, file_path)
        /\ EventCounts(file_path)
        /\ ~is_in_library(file_path)
        /\ ~HEALTH_CHECK
        /\ Proceeds(lib.title)
        /\ stuck_files[file_path] < MaxAttempts
        /\ loading_libraries' = LoadingAfterLookup(file_path)
        /\ stuck_files' = r.rows
        /\ last_ret' = [last_ret EXCEPT ![file_path] = r.giveUp]
        /\ calls' = [calls EXCEPT ![file_path] = @ + 1]
        /\ new_at' = IF r.giveUp THEN new_at ELSE [new_at EXCEPT ![file_path] = now]
        /\ call' = [call EXCEPT !.scan[file_path] =
                                  IF r.giveUp THEN "idle" ELSE "resolved"]
        /\ UNCHANGED <<setupVars, fs, del, now, schedVars, serverVars, library_files,
                       fills, events, event_seq, is_scanning, sw, counters>>

\* with self.pending_scans_lock, lines 880 and 944: the handler takes the lock
GroupLock(t) ==
    /\ call.fn = "pending_scans_lock"
    /\ PosOf(call, del, t) = "resolved"
    /\ call.owner = NoOwner
    /\ Moved(t, "noting", t)
    /\ UNCHANGED <<setupVars, fs, now, schedVars, serverVars, cacheVars,
                   trackerVars, eventVars, is_scanning, sw, counters>>

\* lines 881-884 and 945-947: the path joins the group of its target, and the
\* with block ends
GroupAppend(t) ==
    LET file_path == t[2]
        lib == get_library_id_for_path(file_path)
        target_path == TargetPath(lib.id, file_path)
    IN  /\ call.fn = "pending_scans_lock"
        /\ PosOf(call, del, t) = "noting"
        /\ pending_notifications' =
              IF t[1] = "del"
              THEN NoteDeleted(pending_notifications, target_path, lib.title, file_path)
              ELSE NoteAdded(pending_notifications, target_path, lib.title, file_path)
        /\ Moved(t, "noted", Release(t))
        /\ UNCHANGED <<setupVars, fs, now, pending_scans, tasks, last_enroll, burst,
                       delivered, serverVars, cacheVars, trackerVars, eventVars,
                       is_scanning, sw, counters>>

\* scan_file, lines 888-890: the path joins the set of its section
ScanCache(file_path) ==
    LET lib == get_library_id_for_path(file_path)
    IN  /\ call.fn = "pending_scans_lock"
        /\ call.scan[file_path] = "noted"
        /\ library_files' = OptimisticAdd(library_files, lib.id, file_path)
        /\ call' = [call EXCEPT !.scan[file_path] = "discarded"]
        /\ UNCHANGED <<setupVars, fs, del, now, schedVars, serverVars,
                       loading_libraries, fills, trackerVars, eventVars,
                       is_scanning, sw, counters>>

\* trigger_scan without force, line 438: the handler takes the lock
KeyLock(t) ==
    /\ call.fn = "pending_scans_lock"
    /\ PosOf(call, del, t) = "discarded"
    /\ call.owner = NoOwner
    /\ Moved(t, "enrolling", t)
    /\ UNCHANGED <<setupVars, fs, now, schedVars, serverVars, cacheVars,
                   trackerVars, eventVars, is_scanning, sw, counters>>

\* trigger_scan, lines 439-443: the key's time becomes now, the with block
\* ends and the handler returns
KeySet(t) ==
    LET file_path == t[2]
        lib == get_library_id_for_path(file_path)
        key == <<lib.id, TargetPath(lib.id, file_path)>>
    IN  /\ call.fn = "pending_scans_lock"
        /\ PosOf(call, del, t) = "enrolling"
        /\ pending_scans' = EnqueueScan(pending_scans, key)
        /\ NoteEnroll({key})
        /\ del' = IF t[1] = "del"
                  THEN [del EXCEPT ![file_path] = DeletionEnds(@, "deleted")]
                  ELSE del
        /\ call' = [call EXCEPT !.owner = Release(t),
                                !.scan = IF t[1] = "scan"
                                         THEN [@ EXCEPT ![file_path] = "idle"] ELSE @]
        /\ UNCHANGED <<setupVars, fs, now, pending_notifications, tasks, delivered,
                       serverVars, cacheVars, trackerVars, eventVars, is_scanning,
                       sw, counters>>

\* a webhook calls trigger_scan without force on a folder, line 438
HookLock(key) ==
    /\ call.fn = "pending_scans_lock"
    /\ call.hook.pc = "idle"
    /\ call.owner = NoOwner
    /\ call' = [call EXCEPT !.owner = <<"hook">>,
                            !.hook = [pc |-> "set", key |-> key]]
    /\ UNCHANGED <<setupVars, fs, del, now, schedVars, serverVars, cacheVars,
                   trackerVars, eventVars, is_scanning, sw, counters>>

\* lines 439-443 for the webhook
HookSet ==
    /\ call.fn = "pending_scans_lock"
    /\ call.hook.pc = "set"
    /\ pending_scans' = EnqueueScan(pending_scans, call.hook.key)
    /\ NoteEnroll({call.hook.key})
    /\ counters' = [counters EXCEPT !.other = TRUE]
    /\ call' = [call EXCEPT !.owner = Release(<<"hook">>),
                            !.hook = [pc |-> "idle", key |-> <<>>]]
    /\ UNCHANGED <<setupVars, fs, del, now, pending_notifications, tasks, delivered,
                   serverVars, cacheVars, trackerVars, eventVars, is_scanning, sw>>

\* _process_scan_queue, line 453: the worker takes the lock
TickLock ==
    /\ call.fn = "pending_scans_lock"
    /\ call.worker.pc = "sleep"
    /\ call.owner = NoOwner
    /\ call' = [call EXCEPT !.owner = <<"worker">>, !.worker.pc = "collect"]
    /\ UNCHANGED <<setupVars, fs, del, now, schedVars, serverVars, cacheVars,
                   trackerVars, eventVars, is_scanning, sw, counters>>

\* lines 454-469: the ready keys and their groups leave the two maps into the
\* locals of the worker, and the with block ends
TickCollect ==
    LET ready == SelectIdx(pending_scans, ReadyIdx)
        to_trigger == [i \in 1..Len(ready) |-> ready[i].key]
        ready_notifications == ReadyNotifications(to_trigger, pending_notifications)
        taken == {ready_notifications[i].root : i \in 1..Len(ready_notifications)}
    IN  /\ call.fn = "pending_scans_lock"
        /\ call.worker.pc = "collect"
        /\ pending_scans' =
              SelectIdx(pending_scans, (1..Len(pending_scans)) \ ReadyIdx)
        /\ pending_notifications' = Drop(pending_notifications, taken)
        /\ call' = [call EXCEPT !.owner = Release(<<"worker">>),
                                !.worker = [pc |-> "send", to_trigger |-> to_trigger,
                                            ready_notifications |-> ready_notifications]]
        /\ UNCHANGED <<setupVars, fs, del, now, tasks, last_enroll, burst, delivered,
                       serverVars, cacheVars, trackerVars, eventVars, is_scanning,
                       sw, counters>>

\* lines 472-473 and 478-480: the notification of the ready groups; a raise
\* ends the pass
TickSend ==
    LET ready_notifications == call.worker.ready_notifications
    IN  /\ call.fn = "pending_scans_lock"
        /\ call.worker.pc = "send"
        /\ \E outcome \in SendOutcomes(ready_notifications) :
              IF outcome = "raised"
              THEN /\ call' = [call EXCEPT !.worker = LockCall.worker]
                   /\ UNCHANGED delivered
              ELSE /\ call' = [call EXCEPT !.worker.pc = "submit"]
                   /\ delivered' =
                        IF ready_notifications = <<>> THEN delivered
                        ELSE Append(delivered, GroupedNotification(ready_notifications))
        /\ UNCHANGED <<setupVars, fs, del, now, pending_scans, pending_notifications,
                       tasks, last_enroll, burst, serverVars, cacheVars, trackerVars,
                       eventVars, is_scanning, sw, counters>>

\* lines 475-477: the ready keys are submitted to scan_monitor_executor
TickSubmit ==
    LET to_trigger == call.worker.to_trigger
        hit == {to_trigger[i] : i \in 1..Len(to_trigger)}
    IN  /\ call.fn = "pending_scans_lock"
        /\ call.worker.pc = "submit"
        /\ tasks' = tasks \o [i \in 1..Len(to_trigger) |->
                                Task(to_trigger[i][1], to_trigger[i][2], "queued", FALSE)]
        /\ burst' = [k \in Keys |->
                       IF k \in hit THEN [burst[k] EXCEPT !.disp = @ + 1] ELSE burst[k]]
        /\ call' = [call EXCEPT !.worker = LockCall.worker]
        /\ UNCHANGED <<setupVars, fs, del, now, pending_scans, pending_notifications,
                       last_enroll, delivered, serverVars, cacheVars, trackerVars,
                       eventVars, is_scanning, sw, counters>>

(***************************************************************************)
(* connect_to_plex on its own: one call, its attempts and its sleeps.      *)
(***************************************************************************)
\* the errors PlexServer(...) raises
ConnectErrors == {"ConnectionError", "Unauthorized"}

\* a call of connect_to_plex(retry) not yet begun; slept lists the sleeps made,
\* failures counts the attempts that raised, first_error is the first of them
ConnectCall(retry) ==
    [fn |-> "connect_to_plex", retry |-> retry, pc |-> "called", retry_delay |-> 0,
     slept |-> <<>>, failures |-> 0, first_error |-> "", ret |-> "", raised |-> ""]

\* a backoff that would keep doubling
NextDelayUncapped(retry_delay, max_delay) == retry_delay * 2

\* line 122: retry_delay = min(retry_delay * 2, max_delay)
NextDelay(retry_delay, max_delay) ==
    IF retry_delay * 2 < max_delay THEN retry_delay * 2 ELSE max_delay

\* connect_to_plex, lines 99-103: nothing to connect to unless the server is
\* Plex; else the loop begins with a delay of 5 seconds
ConnectBegin ==
    /\ call.fn = "connect_to_plex"
    /\ call.pc = "called"
    /\ call' = IF SERVER_TYPE # "plex"
               THEN [call EXCEPT !.pc = "returned", !.ret = "None"]
               ELSE [call EXCEPT !.pc = "try", !.retry_delay = 5]
    /\ UNCHANGED <<setupVars, fs, del, now, schedVars, serverVars, cacheVars,
                   trackerVars, eventVars, is_scanning, sw, counters>>

\* one pass of the loop, lines 106-121: without URL or token the call raises
\* (retry off) or returns None; else PlexServer(...) returns the server or
\* raises, and the error is raised again (retry off) or slept on
ConnectAttempt ==
    /\ call.fn = "connect_to_plex"
    /\ call.pc = "try"
    /\ IF ~config.PLEX_URL \/ ~config.TOKEN
       THEN call' = IF ~call.retry
                    THEN [call EXCEPT !.pc = "raised", !.raised = "ValueError"]
                    ELSE [call EXCEPT !.pc = "returned", !.ret = "None"]
       ELSE \/ call' = [call EXCEPT !.pc = "returned", !.ret = "plex"]
            \/ /\ call.failures < MaxFails
               /\ \E err \in ConnectErrors :
                     LET failed == [call EXCEPT
                                      !.failures = @ + 1,
                                      !.first_error = IF @ = "" THEN err ELSE @]
                     IN  call' = IF ~call.retry
                                 THEN [failed EXCEPT !.pc = "raised", !.raised = err]
                                 ELSE [failed EXCEPT
                                         !.pc = "sleeping",
                                         !.slept = Append(@, call.retry_delay)]
    /\ UNCHANGED <<setupVars, fs, del, now, schedVars, serverVars, cacheVars,
                   trackerVars, eventVars, is_scanning, sw, counters>>

\* the sleep of line 121 ends; line 122 sets the next delay
ConnectWake ==
    /\ call.fn = "connect_to_plex"
    /\ call.pc = "sleeping"
    /\ call' = [call EXCEPT !.pc = "try",
                            !.retry_delay = NextDelay(@, 300)]
    /\ UNCHANGED <<setupVars, fs, del, now, schedVars, serverVars, cacheVars,
                   trackerVars, eventVars, is_scanning, sw, counters>>

(***************************************************************************)
(* _do_trigger_scan on its own: one call, the request, the sleeps and the  *)
(* polls of its wait, on the clock of the call.                            *)
(***************************************************************************)
\* max_wait of _trigger_plex_scan, seconds
max_wait == 600
\* time.sleep(5) of _trigger_plex_scan, seconds
POLL_SLEEP == 5

\* the seconds a status poll may take
PollDurations == {0, 1}

\* a call of _do_trigger_scan(library_id, folder_path) not yet begun; t is
\* time.time() counted from the call, polls and outcome are history
DispatchCall(key) ==
    [fn |-> "_do_trigger_scan", key |-> key, pc |-> "called", t |-> 0,
     start_wait |-> 0, polls |-> 0, outcome |-> ""]

\* a wait that would have no bound
TimedOutNever(t, start_wait) == FALSE

\* line 672: time.time() - start_wait > max_wait
TimedOut(t, start_wait) == t - start_wait > max_wait

\* _do_trigger_scan up to the wait, lines 622-669: with DRY_RUN the call
\* logs and returns; a request that fails is logged and the call returns;
\* for Plex an accepted request adds a row to table events, the server
\* starts the refresh and the call sleeps before its first poll
DispatchBegin ==
    LET ret(how) == [call EXCEPT !.pc = "returned", !.outcome = how]
    IN  /\ call.fn = "_do_trigger_scan"
        /\ call.pc = "called"
        /\ \E accepted \in BOOLEAN :
              IF DRY_RUN \/ SERVER_TYPE \notin {"plex", "jellyfin", "emby"}
              THEN /\ call' = ret("none")
                   /\ UNCHANGED <<activities, events, event_seq>>
              ELSE IF ~accepted
              THEN /\ call' = ret("failed")
                   /\ UNCHANGED <<activities, events, event_seq>>
              ELSE /\ AddEventVars("Scan Triggered", call.key[2], SERVER_TYPE)
                   /\ IF SERVER_TYPE = "plex"
                      THEN /\ activities' = activities \cup {call.key[1]}
                           /\ call' = [call EXCEPT !.pc = "wait",
                                                   !.t = @ + POLL_SLEEP,
                                                   !.start_wait = call.t + POLL_SLEEP]
                      ELSE /\ call' = ret("posted")
                           /\ UNCHANGED activities
        /\ UNCHANGED <<setupVars, fs, del, now, schedVars, server_index, cacheVars,
                       stuck_files, last_ret, eventVars, is_scanning, sw, counters>>

\* one pass of the wait loop, lines 671-689: past max_wait the call returns;
\* else the activities are read, which takes time and may raise; a refresh
\* of the section, or an error, is slept on, and no refresh ends the wait
DispatchPoll ==
    /\ call.fn = "_do_trigger_scan"
    /\ call.pc = "wait"
    /\ IF TimedOut(call.t, call.start_wait)
       THEN call' = [call EXCEPT !.pc = "returned", !.outcome = "timed_out"]
       ELSE \E d \in PollDurations, raised \in BOOLEAN :
               call' = IF raised \/ call.key[1] \in activities
                       THEN [call EXCEPT !.t = @ + d + POLL_SLEEP, !.polls = @ + 1]
                       ELSE [call EXCEPT !.t = @ + d, !.polls = @ + 1,
                                         !.pc = "returned", !.outcome = "finished"]
    /\ UNCHANGED <<setupVars, fs, del, now, schedVars, serverVars, cacheVars,
                   trackerVars, eventVars, is_scanning, sw, counters>>

(***************************************************************************)
(* increment_attempt statement by statement: the threads that call it, the *)
(* tracker object each of them uses and the lock of that object.           *)
(***************************************************************************)
\* two workers of event_executor running scan_file, and a worker of a sweep
TrackerThreads == {"event1", "event2", "sweep"}

\* a run_scan that would pass self.history to its workers
TrackerShared(th) == "history"

\* the tracker a thread calls: scan_file falls back to self.history (lines
\* 819-820), run_scan makes a StuckFileTracker of its own on the same
\* history.db (line 1044)
TrackerOf(th) == IF th = "sweep" THEN "run_scan" ELSE "history"

\* the threads between the statements of increment_attempt: lock is the
\* holder of each object's self.lock, row what the SELECT of a thread
\* fetched (0: no row), done the calls a thread completed
TrackerCall ==
    [fn |-> "increment_attempt",
     lock |-> [o \in {"history", "run_scan"} |-> ""],
     th |-> [t \in TrackerThreads |-> [pc |-> "idle", row |-> 0, done |-> 0]]]

\* increment_attempt, lines 85-92: the thread takes the lock of its tracker,
\* opens a connection and fetches the row of the path; the SELECT opens no
\* transaction
AttemptSelect(th, file_path) ==
    LET o == TrackerOf(th)
    IN  /\ call.fn = "increment_attempt"
        /\ call.th[th].pc = "idle"
        /\ call.lock[o] = ""
        /\ calls[file_path] + Cardinality({t \in TrackerThreads : call.th[t].pc # "idle"})
              < MaxAttempts
        /\ call' = [call EXCEPT !.lock[o] = th,
                                !.th[th].pc = "fetched",
                                !.th[th].row = stuck_files[file_path]]
        /\ UNCHANGED <<setupVars, fs, del, now, schedVars, serverVars, cacheVars,
                       trackerVars, eventVars, is_scanning, sw, counters>>

\* increment_attempt, lines 94-106: the UPDATE with the fetched attempts plus
\* one, or the INSERT of a first attempt, which fails on the primary key
\* when the path has a row by now; the commit, the result, the lock released
AttemptWrite(th, file_path) ==
    LET o == TrackerOf(th)
        row == call.th[th].row
        failed == row = 0 /\ stuck_files[file_path] > 0
        attempts == row + 1
    IN  /\ call.fn = "increment_attempt"
        /\ call.th[th].pc = "fetched"
        /\ stuck_files' = IF failed THEN stuck_files
                          ELSE [stuck_files EXCEPT ![file_path] = attempts]
        /\ last_ret' = [last_ret EXCEPT ![file_path] =
                          IF failed THEN FALSE ELSE attempts > max_retries]
        /\ calls' = [calls EXCEPT ![file_path] = @ + 1]
        /\ call' = [call EXCEPT !.lock[o] = "",
                                !.th[th] = [pc |-> "idle", row |-> 0,
                                            done |-> call.th[th].done + 1]]
        /\ UNCHANGED <<setupVars, fs, del, now, schedVars, serverVars, cacheVars,
                       events, event_seq, new_at, is_scanning, sw, counters>>

(***************************************************************************)
(* The specification of the daemon: watcher events, sweeps, the tick loop  *)
(* and its dispatch tasks, the server.                                     *)
(***************************************************************************)
\* self.config as config.py makes it by default, and with the watcher on;
\* args_watch is the --watch flag of main.py, which is not written to
\* self.config; PLEX_URL and TOKEN are kept as whether they are set
DefaultConfig ==
    [WATCH_MODE |-> FALSE, ABORT_ON_MASS_DELETION |-> TRUE, DRY_RUN |-> FALSE,
     HEALTH_CHECK |-> FALSE, SERVER_TYPE |-> "plex", args_watch |-> FALSE,
     PLEX_URL |-> TRUE, TOKEN |-> TRUE, IGNORE_PATTERNS |-> {}]
WatchConfig == [DefaultConfig EXCEPT !.WATCH_MODE = TRUE]
Configs ==
    {[DefaultConfig EXCEPT !.WATCH_MODE = w, !.ABORT_ON_MASS_DELETION = a] :
        w \in BOOLEAN, a \in BOOLEAN}

\* the rows of table events after n calls of add_event
LoggedRows(n) ==
    [i \in 1..n |-> [id |-> i, event_type |-> "Scan Triggered", details |-> RootM,
                     status |-> "Plex"]]

\* a disk that holds every file, each a media file
MediaDisk ==
    [mounted |-> TRUE, files |-> Files, kind |-> [p \in Files |-> "media"],
     db_ok |-> TRUE]

\* the state after PlexScanner.__init__ and get_library_ids with one of
\* configs, get_library_ids having stored one of sections, the server
\* indexing index, the cache holding cache, table events holding rows and
\* the disk being one of disks, but for the call of a path function under
\* study
StartDisk(configs, sections, index, cache, rows, disks) ==
    /\ library_sections_cache \in sections
    /\ now = 0
    /\ pending_scans = <<>>
    /\ pending_notifications = <<>>
    /\ tasks = <<>>
    /\ activities = {}
    /\ server_index = index
    /\ library_files = cache
    /\ loading_libraries = {}
    /\ fills = {}
    /\ is_scanning = FALSE
    /\ stuck_files = [p \in Files |-> 0]
    /\ events = rows
    /\ event_seq = Len(rows)
    /\ sw = [t \in Callers |-> IdleSweep]
    /\ last_enroll = [k \in Keys |-> -1]
    /\ burst = [k \in Keys |-> [n |-> 0, disp |-> 0]]
    /\ delivered = <<>>
    /\ last_ret = [p \in Files |-> FALSE]
    /\ calls = [p \in Files |-> 0]
    /\ new_at = [p \in Files |-> -1]
    /\ counters = [forced |-> 0, sweeps |-> [t \in Callers |-> 0], other |-> FALSE,
                   tripped |-> FALSE,
                   requested |-> FALSE, forced_age |-> -1,
                   log0 |-> Len(rows), cleared_at |-> 0]
    /\ config \in configs
    /\ fs \in disks
    /\ del = [p \in Files |-> NoDeletion]

\* the same, every file on disk being a media file
StartSections(configs, sections, index, cache, rows) ==
    StartDisk(configs, sections, index, cache, rows, {MediaDisk})

\* the same, get_library_ids having stored the sections of the server
StartTables(configs, index, cache, rows) ==
    StartSections(configs, {ServerSections}, index, cache, rows)

\* the same, on a new history.db
StartState(configs, index, cache) == StartTables(configs, index, cache, <<>>)

\* the same, with no path function under study
StartWith(configs, index, cache) ==
    /\ StartState(configs, index, cache)
    /\ call = NoCall

\* the state after PlexScanner.__init__ and get_library_ids, with one of configs
Start(configs) == StartWith(configs, [l \in LibIds |-> {}], NoCache)

Init == Start(Configs)

\* the tick loop, its dispatch tasks and the server's refreshes
SchedulerStep ==
    \/ Advance
    \/ Tick
    \/ TaskStart
    \/ \E i \in 1..Len(tasks) : TaskDone(i)
    \/ \E l \in LibIds : ServerFinish(l)

\* a full sweep of one of the callers of T, step by step
SweepStepOf(T) ==
    \/ \E t \in T : SweepEnter(t)
    \/ \E t \in T : SweepBegin(t)
    \/ \E t \in T : SweepCacheFetch(t)
    \/ \E t \in T : SweepCacheStore(t)
    \/ \E t \in T, p \in Files : SweepFile(t, p)
    \/ \E t \in T : SweepDecide(t)
    \/ \E t \in T : SweepError(t)
    \/ \E t \in T : SweepFinally(t)

\* the sweeps main.py runs
SweepStep == SweepStepOf(SweepThreads)

\* the watcher's deleted events, and the disk under them
DeleteStep ==
    \/ \E p \in Files : DeleteBegin(p)
    \/ \E p \in Files : DeleteRecheck(p)
    \/ \E p \in Files : DeleteDiscard(p)
    \/ \E p \in Files : DeleteEnroll(p)
    \/ \E p \in Files : FileChanges(p)
    \/ MountChanges

\* the watcher's created and moved events and the background cache fill
EventStep ==
    \/ \E p \in Files : SubmitFileEvent(p)
    \/ \E l \in LibIds : BgFillBegin(l)
    \/ \E l \in LibIds : BgFillEnd(l)

Next ==
    \/ SchedulerStep
    \/ EventStep
    \/ DeleteStep
    \/ SweepStep
    \/ \E p \in Files : ServerIndexes(p)
    \/ \E k \in DirKeys : EnrollDir(k)
    \/ \E k \in Keys : ForceScan(k)
    \/ ClearAllStuck
    \/ StoreToggle
    \/ AddEvent
    \/ ClearEvents
    \/ ConnectBegin
    \/ ConnectAttempt
    \/ ConnectWake
    \/ DispatchBegin
    \/ DispatchPoll
    \/ \E th \in TrackerThreads, p \in Files : AttemptSelect(th, p)
    \/ \E th \in TrackerThreads, p \in Files : AttemptWrite(th, p)
    \/ \E p \in Files : DeleteResolve(p)
    \/ \E p \in Files : ScanResolve(p)
    \/ \E p \in Files : ScanCache(p)
    \/ \E t \in LockHandlers : GroupLock(t)
    \/ \E t \in LockHandlers : GroupAppend(t)
    \/ \E t \in LockHandlers : KeyLock(t)
    \/ \E t \in LockHandlers : KeySet(t)
    \/ \E k \in DirKeys : HookLock(k)
    \/ HookSet
    \/ TickLock
    \/ TickCollect
    \/ TickSend
    \/ TickSubmit

Spec == Init /\ [][Next]_vars

(***************************************************************************)
(* The scan queue alone: webhook and file-browser enrollments, the         *)
(* dashboard's forced scans, the tick loop and the server.                 *)
(***************************************************************************)
SchedInit == Start({DefaultConfig})

SchedNext ==
    \/ SchedulerStep
    \/ \E k \in DirKeys : EnrollDir(k)
    \/ \E k \in Keys : ForceScan(k)

SchedSpec == SchedInit /\ [][SchedNext]_vars

(***************************************************************************)
(* The tracker alone: its methods called one after another.                *)
(***************************************************************************)
TrackerInit == Start({DefaultConfig})

TrackerNext ==
    \/ \E p \in Files : IncrementAttempt(p)
    \/ \E p \in Files : ClearEntry(p)
    \/ ClearAllStuck
    \/ AddEvent

TrackerSpec == TrackerInit /\ [][TrackerNext]_vars

(***************************************************************************)
(* The watcher: created events, the background cache fill, the tick loop.  *)
(***************************************************************************)
WatchInit == Start({WatchConfig})

WatchNext ==
    \/ EventStep
    \/ \E p \in Files : ServerIndexes(p)
    \/ Advance
    \/ Tick

WatchSpec == WatchInit /\ [][WatchNext]_vars

(***************************************************************************)
(* The sweep: run_scan under each configuration, and the tick loop.        *)
(***************************************************************************)
SweepInit == Start(Configs)

SweepNext ==
    \/ SweepStep
    \/ \E p \in Files : ServerIndexes(p)
    \/ Advance
    \/ Tick

SweepSpec == SweepInit /\ [][SweepNext]_vars

(***************************************************************************)
(* Stuck files: events and sweeps on the same store, and --clear-stuck.    *)
(***************************************************************************)
StuckInit == Start({WatchConfig})

StuckNext ==
    \/ \E p \in Files : SubmitFileEvent(p)
    \/ SweepStep
    \/ \E p \in Files : ServerIndexes(p)
    \/ ClearAllStuck

StuckSpec == StuckInit /\ [][StuckNext]_vars

(***************************************************************************)
(* Deleted events: the watcher after its startup sweep, the server         *)
(* indexing every file and the cache holding the sets the sweep fetched    *)
(* and kept, or no set.                                                    *)
(***************************************************************************)
\* the server indexes the files on disk
FullIndex == [l \in LibIds |-> {f \in Files : resolve(ServerSections, f).id = l}]

\* the cache a sweep leaves in watch mode
KeptCache == [l \in LibIds |-> Cached(FullIndex[l])]

DeleteInit ==
    \E cache \in {NoCache, KeptCache} : StartWith({WatchConfig}, FullIndex, cache)

DeleteNext ==
    \/ DeleteStep
    \/ Advance

DeleteSpec == DeleteInit /\ [][DeleteNext]_vars

(***************************************************************************)
(* The queue under deleted events: files leave the disk after the startup  *)
(* sweep, the watcher handles the deleted event of each, a webhook names   *)
(* folders that were not enrolled before, the tick loop runs.              *)
(***************************************************************************)
QueueInit == StartWith({WatchConfig}, FullIndex, KeptCache)

QueueNext ==
    \/ \E p \in Files : p \in fs.files /\ FileChanges(p)
    \/ \E p \in Files : p \notin fs.files /\ del[p].n = 0 /\ DeleteBegin(p)
    \/ \E p \in Files : DeleteRecheck(p)
    \/ \E p \in Files : DeleteDiscard(p)
    \/ \E p \in Files : DeleteEnroll(p)
    \/ \E k \in DirKeys : last_enroll[k] < 0 /\ EnrollDir(k)
    \/ Advance
    \/ Tick

QueueSpec == QueueInit /\ [][QueueNext]_vars

\* the same with the tick loop and the clock running: _process_scan_queue
\* is a daemon thread that loops for ever, one pass a second, and goes on
\* after an exception in a pass (lines 447-480)
QueueLiveSpec == QueueSpec /\ WF_vars(Tick) /\ WF_vars(Advance)

(***************************************************************************)
(* Paths of no section: get_library_ids stored no section, or only one     *)
(* that does not hold the scan path; the watcher reports files created,    *)
(* until the tracker counts one, and deleted once they left the disk;      *)
(* under each server type.                                                 *)
(***************************************************************************)
StrayConfigs ==
    {[WatchConfig EXCEPT !.SERVER_TYPE = s] : s \in {"plex", "jellyfin", "emby"}}

\* what get_library_ids stored: nothing, or the section of /t alone
StraySections == {<<>>, <<ServerSections[2]>>}

StrayInit ==
    /\ StartSections(StrayConfigs, StraySections, [l \in LibIds |-> {}], NoCache, <<>>)
    /\ call = NoCall

StrayNext ==
    \/ \E p \in Files : calls[p] = 0 /\ SubmitFileEvent(p)
    \/ \E p \in Files : p \in fs.files /\ FileChanges(p)
    \/ \E p \in Files : p \notin fs.files /\ del[p].n = 0 /\ DeleteBegin(p)
    \/ \E p \in Files : DeleteRecheck(p)
    \/ \E p \in Files : DeleteDiscard(p)
    \/ \E p \in Files : DeleteEnroll(p)
    \/ Advance

StraySpec == StrayInit /\ [][StrayNext]_vars

(***************************************************************************)
(* The lock: /m/a/x leaves the disk and the watcher reports it, the sweep  *)
(* meets the new file /m/b/y, a webhook names the folder /m/a until it is  *)
(* enrolled, the tick loop runs and the pool sends the refresh requests.   *)
(***************************************************************************)
LockInit ==
    /\ StartState({DefaultConfig}, [l \in LibIds |-> {}], NoCache)
    /\ call = LockCall

LockNext ==
    \/ F1 \in fs.files /\ FileChanges(F1)
    \/ F1 \notin fs.files /\ del[F1].n = 0 /\ DeleteBegin(F1)
    \/ DeleteResolve(F1)
    \/ DeleteDiscard(F1)
    \/ calls[F2] = 0 /\ ScanResolve(F2)
    \/ ScanCache(F2)
    \/ \E t \in LockHandlers : GroupLock(t)
    \/ \E t \in LockHandlers : GroupAppend(t)
    \/ \E t \in LockHandlers : KeyLock(t)
    \/ \E t \in LockHandlers : KeySet(t)
    \/ last_enroll[<<"1", DirA>>] < 0 /\ HookLock(<<"1", DirA>>)
    \/ HookSet
    \/ TickLock
    \/ TickCollect
    \/ TickSend
    \/ TickSubmit
    \/ TaskStart
    \/ Advance

LockSpec == LockInit /\ [][LockNext]_vars

(***************************************************************************)
(* The path functions, each called once on one of the inputs under study.  *)
(***************************************************************************)
PathInit ==
    /\ StartState({DefaultConfig}, [l \in LibIds |-> {}], NoCache)
    /\ call \in PendingCalls

PathNext ==
    \/ Resolve
    \/ ComputeTarget

PathSpec == PathInit /\ [][PathNext]_vars

(***************************************************************************)
(* Concurrent callers of run_scan: the scheduled sweep of main.py and the  *)
(* thread /api/scan-all starts.                                            *)
(***************************************************************************)
RaceInit == Start({DefaultConfig})

RaceNext == SweepStepOf(Callers)

RaceSpec == RaceInit /\ [][RaceNext]_vars

(***************************************************************************)
(* The watcher with the health check on: created events, the background    *)
(* cache fill, the server.                                                 *)
(***************************************************************************)
HealthConfig == [WatchConfig EXCEPT !.HEALTH_CHECK = TRUE]

HealthInit == Start({HealthConfig})

HealthNext ==
    \/ EventStep
    \/ \E p \in Files : ServerIndexes(p)

HealthSpec == HealthInit /\ [][HealthNext]_vars

(***************************************************************************)
(* The dispatch under each server type, with and without DRY_RUN: the file *)
(* browser enrolls the root of a section, the dashboard forces its scan.   *)
(***************************************************************************)
\* the directory the file browser asks a scan of
BrowsedKey == <<"1", RootM>>

DispatchConfigs ==
    {[DefaultConfig EXCEPT !.DRY_RUN = d, !.SERVER_TYPE = s] :
        d \in BOOLEAN, s \in {"plex", "jellyfin", "emby"}}

DispatchInit == Start(DispatchConfigs)

DispatchNext ==
    \/ SchedulerStep
    \/ EnrollDir(BrowsedKey)
    \/ \E k \in Keys : ForceScan(k)

DispatchSpec == DispatchInit /\ [][DispatchNext]_vars

(***************************************************************************)
(* The exits of run_scan: the sweeps of main.py and of /api/scan-all, with  *)
(* and without a watcher, the server indexing every file or none.          *)
(***************************************************************************)
\* main.py line 150: the watcher runs with --watch or with WATCH_MODE
WatcherActive == config.args_watch \/ config.WATCH_MODE

ExitConfigs ==
    {[DefaultConfig EXCEPT !.WATCH_MODE = w, !.args_watch = a] :
        w \in BOOLEAN, a \in BOOLEAN}

ExitInit ==
    \E index \in {FullIndex, [l \in LibIds |-> {}]} :
        StartWith(ExitConfigs, index, NoCache)

ExitNext == SweepStepOf(Callers)

ExitSpec == ExitInit /\ [][ExitNext]_vars

(***************************************************************************)
(* connect_to_plex called once, with and without retry, under each server  *)
(* type, with and without URL and token.                                   *)
(***************************************************************************)
ConnectConfigs ==
    {[DefaultConfig EXCEPT !.SERVER_TYPE = s, !.PLEX_URL = u, !.TOKEN = k] :
        s \in {"plex", "jellyfin", "emby"}, u \in BOOLEAN, k \in BOOLEAN}

ConnectInit ==
    /\ StartState(ConnectConfigs, [l \in LibIds |-> {}], NoCache)
    /\ call \in {ConnectCall(retry) : retry \in BOOLEAN}

ConnectNext ==
    \/ ConnectBegin
    \/ ConnectAttempt
    \/ ConnectWake

ConnectSpec == ConnectInit /\ [][ConnectNext]_vars

(***************************************************************************)
(* Table events on its own: add_event and the dashboard's clear, on a new  *)
(* table and on tables that hold about EVENT_KEEP rows.                    *)
(***************************************************************************)
LogInit ==
    \E n \in {0, EVENT_KEEP - 1, EVENT_KEEP} :
        /\ StartTables({DefaultConfig}, [l \in LibIds |-> {}], NoCache, LoggedRows(n))
        /\ call = NoCall

LogNext ==
    \/ AddEvent
    \/ ClearEvents

LogSpec == LogInit /\ [][LogNext]_vars

(***************************************************************************)
(* Ignore patterns that match one file, by its name or by its path: the    *)
(* watcher's events on that file and the sweeps of the dashboard.          *)
(***************************************************************************)
\* the file the patterns under study match
IgnoredFile == F1

IgnoreConfigs ==
    {[WatchConfig EXCEPT !.IGNORE_PATTERNS = {pat}] :
        pat \in {<<"x">>, <<"/", "m", "/", "a", "/", "*">>}}

IgnoreInit == Start(IgnoreConfigs)

IgnoreNext ==
    \/ DeleteBegin(IgnoredFile)
    \/ DeleteRecheck(IgnoredFile)
    \/ DeleteDiscard(IgnoredFile)
    \/ DeleteEnroll(IgnoredFile)
    \/ FileChanges(IgnoredFile)
    \/ SubmitFileEvent(IgnoredFile)
    \/ SweepStep
    \/ Advance

IgnoreSpec == IgnoreInit /\ [][IgnoreNext]_vars

(***************************************************************************)
(* The walk of a sweep over disks that hold files of every kind, with and  *)
(* without the health check, an ignore pattern for a file name or for a    *)
(* directory, the server indexing every file or none, the files lying in   *)
(* a section or in none; the tracker has counted earlier attempts on       *)
(* /m/a/x.                                                                 *)
(***************************************************************************)
WalkConfigs ==
    {[DefaultConfig EXCEPT !.ABORT_ON_MASS_DELETION = FALSE, !.HEALTH_CHECK = h,
                           !.IGNORE_PATTERNS = g] :
        h \in BOOLEAN, g \in {{}, {<<"y">>}, {DirB}}}

\* the disks under study: each file of each kind
WalkDisks == {[MediaDisk EXCEPT !.kind = k] : k \in [Files -> FileKinds]}

WalkInit ==
    /\ \E index \in {FullIndex, [l \in LibIds |-> {}]} :
          StartDisk(WalkConfigs, {ServerSections, <<ServerSections[2]>>}, index,
                    NoCache, <<>>, WalkDisks)
    /\ call = NoCall

WalkNext ==
    \/ counters.sweeps["sched"] = 0 /\ IncrementAttempt(F1)
    \/ SweepStep

WalkSpec == WalkInit /\ [][WalkNext]_vars

(***************************************************************************)
(* The cache fills: scan_file called on new files (by the watcher or by a  *)
(* webhook), the background fills it starts, and the sweep of main.py with *)
(* its pre-cache of every section.                                         *)
(***************************************************************************)
FillInit == Start({DefaultConfig})

FillNext ==
    \/ \E p \in Files : calls[p] = 0 /\ SubmitFileEvent(p)
    \/ \E l \in LibIds : BgFillBegin(l)
    \/ \E l \in LibIds : BgFillEnd(l)
    \/ SweepStep

FillSpec == FillInit /\ [][FillNext]_vars

(***************************************************************************)
(* Repeated sweeps over the same disk and the same server index: events on *)
(* files the server does not index, then the scheduled sweep, then the     *)
(* sweep of /api/scan-all once the scheduled one has returned.             *)
(***************************************************************************)
RepeatInit == Start({DefaultConfig})

RepeatNext ==
    \/ \E p \in Files : counters.sweeps["sched"] = 0 /\ SubmitFileEvent(p)
    \/ SweepStepOf({"sched"})
    \/ (counters.sweeps["sched"] = MaxSweeps /\ sw["sched"].pc = "idle"
           /\ SweepStepOf({"web"}))

RepeatSpec == RepeatInit /\ [][RepeatNext]_vars

(***************************************************************************)
(* The cached sets under the watcher: events, the background fill they     *)
(* schedule, and the server, which indexes no file or every file at the    *)
(* start and indexes more with time.                                       *)
(***************************************************************************)
LookupInit ==
    \E index \in {FullIndex, [l \in LibIds |-> {}]} :
        StartWith({WatchConfig}, index, NoCache)

LookupNext ==
    \/ EventStep
    \/ \E p \in Files : ServerIndexes(p)

LookupSpec == LookupInit /\ [][LookupNext]_vars

(***************************************************************************)
(* A store that fails at times: events on /m/a/x, then a sweep with or     *)
(* without the health check, while history.db comes and goes, the server   *)
(* indexing every file or none.                                            *)
(***************************************************************************)
FailConfigs ==
    {[DefaultConfig EXCEPT !.ABORT_ON_MASS_DELETION = FALSE, !.HEALTH_CHECK = h] :
        h \in BOOLEAN}

FailInit ==
    \E index \in {FullIndex, [l \in LibIds |-> {}]} :
        StartWith(FailConfigs, index, NoCache)

FailNext ==
    \/ StoreToggle
    \/ (counters.sweeps["sched"] = 0 /\ ~config.HEALTH_CHECK
           /\ calls[F1] < MaxAttempts /\ SubmitFileEvent(F1))
    \/ SweepStep

FailSpec == FailInit /\ [][FailNext]_vars

(***************************************************************************)
(* One dispatch task under each server type, with and without DRY_RUN; the *)
(* server ends its refresh of the section at some time or never.           *)
(***************************************************************************)
WaitInit ==
    /\ StartState(DispatchConfigs, [l \in LibIds |-> {}], NoCache)
    /\ call = DispatchCall(<<"1", DirA>>)

WaitNext ==
    \/ DispatchBegin
    \/ DispatchPoll
    \/ \E l \in LibIds : ServerFinish(l)

WaitSpec == WaitInit /\ [][WaitNext]_vars

\* the same with the task running: it is a call in a worker thread of
\* scan_monitor_executor, or in the thread of the forced caller, and each of
\* its requests and sleeps returns
WaitLiveSpec == WaitSpec /\ WF_vars(DispatchBegin) /\ WF_vars(DispatchPoll)

(***************************************************************************)
(* The store under concurrent callers: two event workers and a sweep       *)
(* worker call increment_attempt on /m/a/x.                                *)
(***************************************************************************)
StoreInit ==
    /\ StartState({DefaultConfig}, [l \in LibIds |-> {}], NoCache)
    /\ call = TrackerCall

StoreNext ==
    \/ \E th \in TrackerThreads : AttemptSelect(th, F1)
    \/ \E th \in TrackerThreads : AttemptWrite(th, F1)

StoreSpec == StoreInit /\ [][StoreNext]_vars

(***************************************************************************)
(* Properties of the scan queue, checked under SchedSpec.                  *)
(***************************************************************************)
\* the refresh requests of section l that were sent and whose wait for the
\* section to be idle has not returned
Outstanding(l) ==
    {i \in 1..Len(tasks) : tasks[i].lib = l /\ tasks[i].st = "waiting"}

\* C1: at every instant and for every section, at most one refresh request of
\* the section is outstanding.
C1_OneRefreshPerSection ==
    \A l \in LibIds : Cardinality(Outstanding(l)) <= 1

\* the step takes key k out of pending_scans: the tick loop dispatches it
TickDispatches(k) ==
    /\ k \in PendingKeys(pending_scans)
    /\ k \notin PendingKeys(pending_scans')

\* C2: the tick loop dispatches a key only when at least SCAN_DEBOUNCE seconds
\* have passed since the most recent non-forced enrollment of the key, so the
\* SCAN_DEBOUNCE seconds before a dispatch hold no enrollment of the key.
C2_DebounceWindow ==
    [][\A k \in Keys :
          TickDispatches(k) => now - last_enroll[k] >= SCAN_DEBOUNCE]_vars

\* a key was enrolled again while pending and dispatched afterwards
C2_Witness ==
    \E k \in Keys : burst[k].n = 2 /\ burst[k].disp = 1

\* C3: a burst of n >= 1 non-forced enrollments of a key, each less than
\* SCAN_DEBOUNCE seconds after the one before, is dispatched at most once, and
\* exactly once by the first pass of the tick loop made SCAN_DEBOUNCE seconds
\* or more after the last of them.
C3_OneDispatchPerBurst ==
    [][\A k \in Keys :
          /\ burst'[k].n >= 1 => burst'[k].disp <= 1
          /\ ( /\ burst[k].n >= 1
               /\ k \in PendingKeys(pending_scans)
               /\ now - last_enroll[k] >= SCAN_DEBOUNCE
               /\ Tick )
             => (burst'[k].disp = 1 /\ k \notin PendingKeys(pending_scans'))]_vars

\* three enrollments in one burst, the quiet period, one dispatch
C3_Witness ==
    \E k \in Keys :
        /\ burst[k] = [n |-> 3, disp |-> 1]
        /\ k \notin PendingKeys(pending_scans)
        /\ \E i \in 1..Len(tasks) : tasks[i].lib = k[1] /\ tasks[i].folder = k[2]

(***************************************************************************)
(* Properties of the sweep, checked under SweepSpec.                       *)
(***************************************************************************)
\* C4: a sweep whose walk ends with total_missing > DELETION_THRESHOLD while
\* ABORT_ON_MASS_DELETION is on enrolls no key, queues no dispatch, sends the
\* 'scan aborted' notification once and sends neither summary.  The step is
\* the one that follows a walk that returned; a walk that raised goes to the
\* except clause instead.
C4_MassDeletionAborts ==
    [][\A t \in SweepThreads :
          ( /\ SweepDecide(t)
            /\ config.ABORT_ON_MASS_DELETION
            /\ sw[t].total_missing > DELETION_THRESHOLD )
          => /\ sw'[t].pc = "finally"
             /\ pending_scans' = pending_scans
             /\ tasks' = tasks
             /\ sw'[t].enrolled = {}
             /\ sw'[t].notes = <<"aborted">>]_vars

\* a sweep found more missing files than the threshold and aborted
C4_Witness ==
    \E t \in SweepThreads :
        /\ sw[t].pc = "finally"
        /\ config.ABORT_ON_MASS_DELETION
        /\ sw[t].total_missing > DELETION_THRESHOLD
        /\ sw[t].notes = <<"aborted">>
        /\ pending_scans = <<>>

\* the key a new file is enrolled under
KeyOf(file_path) ==
    LET lib == get_library_id_for_path(file_path)
    IN  <<lib.id, TargetPath(lib.id, file_path)>>

\* LibraryIndex.Contains: the path is in the set the cache holds for its section
Contains(file_path) ==
    LET library_id == get_library_id_for_path(file_path).id
    IN  /\ library_id # NoLib
        /\ library_files[library_id].present
        /\ normpath(file_path) \in library_files[library_id].files

\* C6: when the tick loop dispatches the key a path was enrolled under as a new
\* file, the cache of the path's section contains the path; stated for the
\* watcher mode, with no sweep running and a set cached for the section.
C6_DispatchedIsContained ==
    [][\A p \in Files :
          ( /\ new_at[p] >= 0
            /\ new_at[p] = last_enroll[KeyOf(p)]
            /\ config.WATCH_MODE
            /\ \A t \in SweepThreads : sw[t].pc = "idle"
            /\ library_files[KeyOf(p)[1]].present
            /\ TickDispatches(KeyOf(p)) )
          => Contains(p)']_vars

(***************************************************************************)
(* Properties of the watcher's events, checked under WatchSpec.            *)
(***************************************************************************)
\* the notifications sent so far whose added list holds the path
AddedNotifications(file_path) ==
    {i \in 1..Len(delivered) :
        \E j \in 1..Len(delivered[i].groups) :
            LET added == delivered[i].groups[j].data.added
            IN  \E x \in 1..Len(added) : added[x] = file_path}

\* the path waits in the added list of the group filed under its target
PendingAdded(file_path) ==
    LET target_path == KeyOf(file_path)[2]
    IN  /\ target_path \in DOMAIN pending_notifications
        /\ \E x \in 1..Len(pending_notifications[target_path].added) :
              pending_notifications[target_path].added[x] = file_path

\* C5: once a single created event for a file the server does not index was
\* handled as new, the file's key either waits in pending_scans with the file
\* in its notification group, or was dispatched once with a notification that
\* lists the file.
C5_SingleAdd ==
    \A p \in Files :
        ( /\ calls[p] = 1
          /\ new_at[p] >= 0
          /\ p \notin server_index[KeyOf(p)[1]] )
        => \/ KeyOf(p) \in PendingKeys(pending_scans) /\ PendingAdded(p)
           \/ burst[KeyOf(p)].disp = 1 /\ AddedNotifications(p) # {}

\* C7: every created event for a path that is not found in the library raises
\* its attempts by one; increment_attempt gives up on the fourth such event in
\* a row and on every later one, and an event that gives up enrolls nothing.
C7_StuckAfterFourEvents ==
    [][\A p \in Files :
          (SubmitFileEvent(p) /\ ~is_in_library(p))
          => /\ stuck_files'[p] = stuck_files[p] + 1
             /\ last_ret'[p] = (calls'[p] >= max_retries + 1)
             /\ calls'[p] >= max_retries + 1
                  => UNCHANGED <<pending_scans, pending_notifications, tasks>>]_vars

\* the fourth event in a row for a path the server never indexed
C7_Witness ==
    \E p \in Files :
        /\ calls[p] = max_retries + 1
        /\ last_ret[p]
        /\ new_at[p] >= 0
        /\ p \notin server_index[get_library_id_for_path(p).id]

(***************************************************************************)
(* Properties of the tracker, checked under TrackerSpec.                   *)
(***************************************************************************)
\* C8: the attempts of a path equal the number of increment_attempt calls made
\* since its row was last deleted, and the last of these calls returned true
\* iff that number is greater than max_retries.
C8_RecordAttempt ==
    \A p \in Files :
        /\ stuck_files[p] = calls[p]
        /\ calls[p] >= 1 => (last_ret[p] = (calls[p] > max_retries))

\* one path at the last call that returns false, the other past it
C8_Witness ==
    \E p, q \in Files :
        /\ stuck_files[p] = max_retries /\ ~last_ret[p]
        /\ stuck_files[q] = max_retries + 2 /\ last_ret[q]

\* C9: the attempts of a path decrease only in clear_entry of that path or in
\* clear_all_stuck; increment_attempt and clear_entry of another path, and
\* add_event, leave them as they are.
C9_AttemptsMonotone ==
    [][\A p \in Files :
          /\ stuck_files'[p] < stuck_files[p] => (ClearEntry(p) \/ ClearAllStuck)
          /\ \A q \in Files \ {p} :
                (IncrementAttempt(q) \/ ClearEntry(q))
                    => stuck_files'[p] = stuck_files[p]
          /\ AddEvent => stuck_files'[p] = stuck_files[p]]_vars

\* a path that was given up and cleared beside a path that kept its attempts,
\* with rows in table events
C9_Witness ==
    \E p, q \in Files :
        /\ stuck_files[p] = 0 /\ last_ret[p]
        /\ stuck_files[q] >= 2
        /\ Len(events) >= 1

(***************************************************************************)
(* Properties of stuck files, checked under StuckSpec.                     *)
(***************************************************************************)
\* C10: while the attempts of a path exceed max_retries, an event for it
\* enrolls nothing, files no notification and inserts nothing into the cache;
\* a sweep that meets it records it as stuck, not as missing, and adds no
\* folder for it; and its row goes only when the path is found in the library
\* or clear_all_stuck runs.
C10_StuckSuppressed ==
    [][\A p \in Files :
          stuck_files[p] > max_retries
          => /\ (SubmitFileEvent(p) /\ ~is_in_library(p))
                  => UNCHANGED <<pending_scans, pending_notifications,
                                 library_files, tasks>>
             /\ \A t \in SweepThreads :
                  (SweepFile(t, p) /\ ~is_in_library(p))
                  => /\ p \in sw'[t].stuck_items
                     /\ sw'[t].missing_items = sw[t].missing_items
                     /\ sw'[t].total_missing = sw[t].total_missing
                     /\ sw'[t].folders_to_scan = sw[t].folders_to_scan
             /\ stuck_files'[p] <= max_retries
                  => /\ stuck_files'[p] = 0
                     /\ is_in_library(p) \/ ClearAllStuck]_vars

\* a sweep met a path whose attempts exceeded max_retries and recorded it as
\* stuck
C10_Witness ==
    \E t \in SweepThreads, p \in Files :
        /\ p \in sw[t].was_stuck
        /\ p \in sw[t].stuck_items
        /\ p \notin sw[t].missing_items


(***************************************************************************)
(* Properties of the deleted events, checked under DeleteSpec.             *)
(***************************************************************************)
\* the step ends the sleep of the handle_deletion call on p: its re-check
RecheckOf(p) == del[p].pc = "sleeping" /\ del'[p].pc # "sleeping"

\* the step leaves the scan queue, the notification groups and the cache alone
NothingEnrolled ==
    UNCHANGED <<pending_scans, pending_notifications, library_files, tasks,
                last_enroll, burst>>

\* C11: a deleted event whose file was absent at the first check, with its
\* scan root reachable, and is on disk again at the re-check after the sleep
\* is dropped: the re-check ends the call, enrolls nothing, files no
\* notification entry and removes nothing from the cache.
C11_TransientDelete ==
    [][\A p \in Files :
          (RecheckOf(p) /\ fs.mounted /\ p \in fs.files)
          => /\ del'[p].pc = "idle"
             /\ now - del[p].t0 >= DELETE_WAIT
             /\ NothingEnrolled]_vars

\* a call slept, found its file back and ended, the path still in the cached
\* set of its section and nothing pending
C11_Witness ==
    \E p \in Files :
        /\ del[p].outcome = "reappeared"
        /\ del[p].sleeps = 1
        /\ Contains(p)
        /\ pending_scans = <<>>
        /\ DOMAIN pending_notifications = {}

\* C12: a deleted event taken up while the scan root of its file does not
\* exist ends before the sleep: the call does not sleep, enrolls nothing,
\* files no notification entry and leaves the cache as it is; so does every
\* such event while the root is away.
C12_MountLoss ==
    [][\A p \in Files :
          (del[p].pc = "idle" /\ del'[p].n = del[p].n + 1 /\ ~fs.mounted)
          => /\ del'[p].pc = "idle"
             /\ del'[p].sleeps = 0
             /\ NothingEnrolled]_vars

\* the second deleted event for a path was dropped with the scan root away
C12_Witness ==
    \E p \in Files :
        /\ ~fs.mounted
        /\ del[p].n = 2
        /\ del[p].outcome = "mount"
        /\ del[p].sleeps = 0
        /\ Contains(p)
        /\ pending_scans = <<>>

\* the deleted list of the group filed under a target (empty without a group)
DeletedList(groups, target_path) ==
    IF target_path \in DOMAIN groups THEN groups[target_path].deleted ELSE <<>>

\* C13: a deleted event for a media file that was absent at the first check,
\* with its scan root reachable, and is still absent after the one sleep of
\* DELETE_WAIT seconds appends the path to the deleted list of its target,
\* then removes it from the set of its section, then enrolls (section,
\* target) once as a non-forced scan.
C13_RealDelete ==
    [][\A p \in Files :
          LET key == KeyOf(p)
          IN  /\ (RecheckOf(p) /\ ~(fs.mounted /\ p \in fs.files))
                 => /\ del[p].sleeps = 1
                    /\ now - del[p].t0 >= DELETE_WAIT
                    /\ del'[p].pc = "noted"
                    /\ DeletedList(pending_notifications', key[2]) =
                          Append(DeletedList(pending_notifications, key[2]), p)
                    /\ UNCHANGED <<pending_scans, library_files>>
              /\ (del[p].pc = "noted" /\ del'[p].pc # "noted")
                 => /\ del'[p].pc = "discarded"
                    /\ ~Contains(p)'
                    /\ library_files[key[1]].present
                          => library_files'[key[1]].files =
                                library_files[key[1]].files \ {p}
                    /\ UNCHANGED <<pending_scans, pending_notifications>>
              /\ (del[p].pc = "discarded" /\ del'[p].pc # "discarded")
                 => /\ del'[p].pc = "idle"
                    /\ ~Contains(p)
                    /\ key \in PendingKeys(pending_scans')
                    /\ PendingTime(pending_scans', key) = now
                    /\ PendingKeys(pending_scans') = PendingKeys(pending_scans) \cup {key}
                    /\ burst'[key].n >= 1
                    /\ UNCHANGED <<library_files, pending_notifications, tasks>>]_vars

\* a call ended as a real delete: the path is in the deleted list of its
\* target, gone from the set cached for its section, and its key is pending
C13_Witness ==
    \E p \in Files :
        /\ del[p].outcome = "deleted"
        /\ del[p].sleeps = 1
        /\ library_files[KeyOf(p)[1]].present
        /\ ~Contains(p)
        /\ KeyOf(p) \in PendingKeys(pending_scans)
        /\ \E x \in 1..Len(DeletedList(pending_notifications, KeyOf(p)[2])) :
              DeletedList(pending_notifications, KeyOf(p)[2])[x] = p


(***************************************************************************)
(* Properties of the path functions, checked under PathSpec.               *)
(***************************************************************************)
\* C14: every handler that computes a refresh target for a file takes the
\* file itself when the file's parent folder is a root of its section and the
\* parent folder otherwise, so the target of a single file is never a root of
\* its section.
C14_FlatRoot ==
    (call.fn \in Handlers /\ call.done)
    => LET library_id == get_library_id_for_path(call.path).id
           parent_folder == dirname(call.path)
       IN  /\ call.ret = IF is_library_root(library_id, parent_folder)
                         THEN call.path ELSE parent_folder
           /\ ~is_library_root(library_id, call.ret)

\* the locations of section i of a cache that are a text prefix of the path
PrefixLengths(sections, i, file_path) ==
    {Len(normpath(sections[i].locations[j])) : j \in
        {j \in 1..Len(sections[i].locations) :
            StartsWith(normpath(file_path), normpath(sections[i].locations[j]))}}

\* the greatest of a non-empty set of numbers
Longest(S) == CHOOSE n \in S : \A m \in S : m <= n

\* C15: get_library_id_for_path returns section S iff a location of S is a
\* prefix of the normalized path and no other section has a longer location
\* that is a prefix too, a section listed earlier winning among equal
\* lengths; it returns none iff no location of any section is a prefix.
C15_Resolve ==
    (call.fn = "resolve" /\ call.done)
    => LET n == Len(call.sections)
           pre(i) == PrefixLengths(call.sections, i, call.path)
           wins(i) ==
               /\ pre(i) # {}
               /\ \A k \in (1..n) \ {i} :
                     pre(k) # {}
                     => \/ Longest(pre(k)) < Longest(pre(i))
                        \/ Longest(pre(k)) = Longest(pre(i)) /\ i < k
       IN  /\ \A i \in 1..n : (call.ret.id = call.sections[i].id) <=> wins(i)
           /\ (call.ret = NoSection) <=> (\A i \in 1..n : pre(i) = {})

\* a path under locations of two sections, the longest of each of the same
\* length and the second section listing a shorter one first, resolved to the
\* first section
C15_Witness ==
    /\ call.fn = "resolve" /\ call.done
    /\ Len(call.sections) = 2
    /\ Cardinality(PrefixLengths(call.sections, 2, call.path)) = 2
    /\ PrefixLengths(call.sections, 1, call.path) # {}
    /\ Longest(PrefixLengths(call.sections, 2, call.path)) =
          Longest(PrefixLengths(call.sections, 1, call.path))
    /\ call.ret.id = "1"


(***************************************************************************)
(* Properties of concurrent sweeps, checked under RaceSpec.                *)
(***************************************************************************)
\* the callers of run_scan that are past line 1041, inside the body
InBody == {t \in Callers : sw[t].pc \notin {"idle", "entered"}}

\* C16: whatever the interleaving of the callers of run_scan, at most one of
\* them executes the body of the sweep at any time.
C16_SingleFlight == Cardinality(InBody) <= 1


(***************************************************************************)
(* The tracker across an aborted sweep, checked under SweepSpec.           *)
(***************************************************************************)
\* C17: when a sweep has tripped the mass deletion check, it has raised the
\* attempts of no path, so that every path has the attempts it had when the
\* sweep began, and the cached sets hold no path the server did not index.
C17_AbortKeepsTracker ==
    \A t \in SweepThreads :
        (sw[t].pc = "finally" /\ sw[t].notes = <<"aborted">>)
        => /\ sw[t].raised = {}
           /\ \A l \in LibIds : library_files[l].files \subseteq server_index[l]


(***************************************************************************)
(* Properties of the health check, checked under HealthSpec.               *)
(***************************************************************************)
\* the step is a created event for p whose check_file_health fails: the check
\* adds the row 'Health Check Failed' for the name of p
CheckFails(p) ==
    /\ HEALTH_CHECK
    /\ ~is_in_library(p)
    /\ Len(events') = Len(events) + 1
    /\ events'[Len(events')].event_type = "Health Check Failed"
    /\ events'[Len(events')].details = basename(p)

\* C18: with HEALTH_CHECK on, a created event for a file that is not in the
\* library and that check_file_health reports unhealthy sends exactly one
\* single-event notification with the file's path and the reason of the
\* failure, and enrolls nothing: increment_attempt is not called, the cache is
\* not changed, no key is made pending and no notification group is filed.
C18_UnhealthyNotEnrolled ==
    [][\A p \in Files :
          CheckFails(p)
          => /\ Len(delivered') = Len(delivered) + 1
             /\ SubSeq(delivered', 1, Len(delivered)) = delivered
             /\ LET note == delivered'[Len(delivered')]
                IN  /\ note.form = "event"
                    /\ note.path = p
                    /\ \E h \in HealthResults :
                          /\ h.event_status = events'[Len(events')].status
                          /\ h.error # ""
                          /\ note.reason = h.error
             /\ UNCHANGED <<stuck_files, calls, last_ret, library_files,
                            pending_scans, pending_notifications, last_enroll,
                            tasks>>]_vars

\* an unhealthy new file was reported once and left without a row in
\* stuck_files, out of the cache and out of the queue
C18_Witness ==
    \E p \in Files :
        /\ Len(delivered) = 1
        /\ delivered[1].form = "event"
        /\ delivered[1].path = p
        /\ delivered[1].reason = "Bitstream Error"
        /\ stuck_files[p] = 0
        /\ calls[p] = 0
        /\ ~Contains(p)
        /\ pending_scans = <<>>
        /\ DOMAIN pending_notifications = {}


(***************************************************************************)
(* Properties of the dispatch, checked under DispatchSpec.                 *)
(***************************************************************************)
\* C19: a forced trigger_scan of a key runs the dispatch of the key before it
\* returns, whatever the age of the key's pending entry, and neither makes,
\* refreshes nor removes a pending entry or a notification group, and queues
\* nothing for later.
C19_ForcedDispatch ==
    [][\A k \in Keys :
          (counters'.forced = counters.forced + 1 /\ ForceScan(k))
          => /\ UNCHANGED <<pending_scans, pending_notifications, last_enroll>>
             /\ ~config.DRY_RUN => counters'.requested
             /\ \/ tasks' = tasks
                \/ tasks' = Append(tasks, Task(k[1], k[2], "waiting", TRUE))]_vars

\* the scan of a key was forced one second after the key was enrolled: the
\* request went out at once and the pending entry is as it was
C19_Witness ==
    /\ counters.forced = 1
    /\ counters.forced_age = 1
    /\ counters.forced_age < SCAN_DEBOUNCE
    /\ BrowsedKey \in PendingKeys(pending_scans)
    /\ \E i \in 1..Len(tasks) :
          tasks[i] = Task(BrowsedKey[1], BrowsedKey[2], "waiting", TRUE)

\* C20: with DRY_RUN on, no dispatch, debounced or forced, for Plex, Jellyfin
\* or Emby, sends a refresh request or starts to wait for the section: no
\* request was sent, no task waits, the server runs no refresh and table
\* events has no 'Scan Triggered' row.
C20_DryRunSendsNothing ==
    config.DRY_RUN
    => /\ ~counters.requested
       /\ \A i \in 1..Len(tasks) : tasks[i].st = "queued"
       /\ activities = {}
       /\ events = <<>>

\* with DRY_RUN on, a debounced dispatch of a key was queued and its task ran
\* and returned, and a forced dispatch ran
C20_Witness ==
    /\ config.DRY_RUN
    /\ config.SERVER_TYPE = "jellyfin"
    /\ counters.forced = 1
    /\ burst[BrowsedKey].disp = 1
    /\ tasks = <<>>


(***************************************************************************)
(* The library cache at the exits of run_scan, checked under ExitSpec.     *)
(***************************************************************************)
\* C21: when a sweep that ran ends (completed, aborted by the safety check or
\* after an error), the cache holds no set of any section if no watcher is
\* active, and is left as it was if a watcher is active.
C21_ExitIndex ==
    [][\A t \in Callers :
          (sw[t].pc = "finally" /\ sw'[t].pc = "idle")
          => IF WatcherActive THEN library_files' = library_files
                              ELSE library_files' = NoCache]_vars


(***************************************************************************)
(* Properties of connect_to_plex, checked under ConnectSpec.               *)
(***************************************************************************)
\* the i-th sleep of the backoff, i = 0, 1, 2, ...
BackoffSleep(i) == IF 5 * 2^i < 300 THEN 5 * 2^i ELSE 300

\* what the claim says of a call: with retry it sleeps once per failed
\* attempt, the i-th sleep lasting min(5 * 2^i, 300) seconds, never raises
\* and returns only the server; without retry it never sleeps and an attempt
\* that fails ends the call with the first error raised
ConnectContract ==
    IF call.retry
    THEN /\ Len(call.slept) = call.failures
         /\ \A i \in 1..Len(call.slept) : call.slept[i] = BackoffSleep(i - 1)
         /\ call.pc # "raised"
         /\ call.pc = "returned" => call.ret = "plex"
    ELSE /\ call.slept = <<>>
         /\ call.failures <= 1
         /\ call.failures = 1 => call.pc = "raised" /\ call.raised = call.first_error
         /\ call.pc = "returned" => call.ret = "plex"

OldestKept ==
    IF counters.cleared_at > event_seq - EVENT_KEEP
    THEN counters.cleared_at ELSE event_seq - EVENT_KEEP

\* table events holds at most EVENT_KEEP rows: those with the largest ids
\* among the rows inserted and not cleared
NewestRows ==
    /\ Len(events) <= EVENT_KEEP
    /\ Len(events) = event_seq - OldestKept
    /\ \A i \in 1..Len(events) : events[i].id = OldestKept + i

\* every row a step leaves in the table and did not insert is a row the
\* table held, unchanged
RowsUnmodified ==
    \A i \in 1..Len(events') :
        events'[i].id <= event_seq
        => /\ events # <<>>
           /\ LET j == events'[i].id - events[1].id + 1
              IN  j \in 1..Len(events) /\ events[j] = events'[i]

\* C23: after every add_event table events holds at most 20 000 rows, the
\* rows with the largest ids among those inserted and not cleared, and a step
\* never changes a row: it inserts one, or removes rows.
C23_EventLog == []NewestRows /\ [][RowsUnmodified]_vars

\* an add_event on a table of 20 000 rows removed the row of the smallest id
C23_Witness ==
    /\ counters.cleared_at = 0
    /\ event_seq = EVENT_KEEP + 1
    /\ Len(events) = EVENT_KEEP
    /\ events[1].id = 2
    /\ events[EVENT_KEEP].id = EVENT_KEEP + 1


(***************************************************************************)
(* The ignore patterns, checked under IgnoreSpec.                          *)
(***************************************************************************)
\* the paths the groups of a dict of notification groups hold
NotedPaths(groups) ==
    UNION {{groups[t].added[i] : i \in 1..Len(groups[t].added)}
           \cup {groups[t].deleted[i] : i \in 1..Len(groups[t].deleted)} :
           t \in DOMAIN groups}

\* C24: a path that matches an ignore pattern, by its full path or by its last
\* component, causes nothing, whatever the event (created, moved, deleted) or
\* the sweep that meets it: no key of its target is enrolled, no notification
\* group holds it, the set of its section keeps or lacks it as the server
\* does, and the tracker has no row and no call for it.
C24_IgnoredFiltered ==
    \A p \in Files :
        is_ignored(p)
        => LET lib == get_library_id_for_path(p).id
           IN  /\ last_enroll[<<lib, TargetPath(lib, p)>>] = -1
               /\ p \notin NotedPaths(pending_notifications)
               /\ library_files[lib].present
                  => (p \in library_files[lib].files <=> p \in server_index[lib])
               /\ stuck_files[p] = 0 /\ calls[p] = 0


(***************************************************************************)
(* Properties of the queue under deleted events, checked under QueueSpec.  *)
(***************************************************************************)
\* the notifications sent so far whose deleted list holds the path
DeletedNotifications(file_path) ==
    {i \in 1..Len(delivered) :
        \E j \in 1..Len(delivered[i].groups) :
            LET deleted == delivered[i].groups[j].data.deleted
            IN  \E x \in 1..Len(deleted) : deleted[x] = file_path}

\* every notification group is filed under the folder of a pending key
GroupHasKey ==
    \A target_path \in DOMAIN pending_notifications :
        \E k \in PendingKeys(pending_scans) : k[2] = target_path

\* no key is pending for a deleted path that a notification already listed
NoKeyAfterDelivery ==
    \A p \in Files :
        (del[p].outcome = "deleted" /\ KeyOf(p) \in PendingKeys(pending_scans))
        => DeletedNotifications(p) = {}

\* C25: in every reachable state a notification group exists for a target
\* only if a pending key for that target exists, and no key waits for
\* dispatch because of a path that a notification already delivered.
C25_GroupWithKey == GroupHasKey /\ NoKeyAfterDelivery


\* the folders of the ready keys that have a notification group
ReadyFolders ==
    {pending_scans[i].key[2] : i \in ReadyIdx} \cap DOMAIN pending_notifications

\* the folders of the groups of the last notification sent
LastFolders(sent) ==
    LET last == sent[Len(sent)]
    IN  {last.groups[j].root : j \in 1..Len(last.groups)}

\* the step sends one more notification, of the form for n ready folders
SendsOne(n) ==
    /\ Len(delivered') = Len(delivered) + 1
    /\ SubSeq(delivered', 1, Len(delivered)) = delivered
    /\ delivered'[Len(delivered')].form = IF n = 1 THEN "single" ELSE "bulk"
    /\ LastFolders(delivered') = ReadyFolders
    /\ \A j \in 1..Len(delivered'[Len(delivered')].groups) :
          LET g == delivered'[Len(delivered')].groups[j]
          IN  g.data = pending_notifications[g.root]

\* the deleted event of the path appended it to the deleted list of its group
Appended(p) == del[p].pc \in {"noted", "discarded"} \/ del[p].outcome = "deleted"

\* the times the path is in the deleted list of the pending group of its folder
PendingDeleted(p) ==
    LET deleted == DeletedList(pending_notifications, KeyOf(p)[2])
    IN  Cardinality({x \in 1..Len(deleted) : deleted[x] = p})

\* the times the path is in the deleted lists of the notifications sent
SentDeleted(p) ==
    LET At(i, j) == delivered[i].groups[j].data.deleted
        places == {<<i, j, x>> \in (1..Len(delivered)) \X (1..Cardinality(Keys))
                                   \X (1..Cardinality(Files)) :
                      /\ j <= Len(delivered[i].groups)
                      /\ x <= Len(At(i, j))
                      /\ At(i, j)[x] = p}
    IN  Cardinality(places)

\* a pass of the tick loop sends the one notification of its ready folders
TickSendsAsStated ==
    Tick => LET n == Cardinality(ReadyFolders)
            IN  IF n = 0 THEN delivered' = delivered ELSE SendsOne(n)

\* the same, or the pass ends at the raise of its notification call
TickSends ==
    Tick => LET n == Cardinality(ReadyFolders)
            IN  \/ n = 0 /\ delivered' = delivered
                \/ n > 0 /\ SendsOne(n)
                \/ /\ n > 0
                   /\ UNCHANGED <<delivered, tasks>>
                   /\ DOMAIN pending_notifications' =
                         DOMAIN pending_notifications \ ReadyFolders

Submits(k) ==
    \E i \in (Len(tasks) + 1)..Len(tasks') :
        tasks'[i] = Task(k[1], k[2], "queued", FALSE)

\* C27: every key a tick removes from pending_scans is submitted to the
\* dispatch pool by that same tick, also when the tick's notification call
\* fails.
C27_RemovedIsSubmitted ==
    [][\A k \in Keys : TickDispatches(k) => Submits(k)]_vars


(***************************************************************************)
(* Liveness of the tick loop, checked under QueueLiveSpec.                 *)
(***************************************************************************)
\* the times at which an enrollment can still become ready within MaxTime
EnrollTimes == 0..(MaxTime - SCAN_DEBOUNCE)

\* key k is pending with its last non-forced enrollment made at time t
EnrolledAt(k, t) ==
    /\ k \in PendingKeys(pending_scans)
    /\ PendingTime(pending_scans, k) = t
    /\ last_enroll[k] = t

\* key k was enrolled again after time t
EnrolledAfter(k, t) == last_enroll[k] > t

\* a key whose enrollments stop is eventually removed from pending_scans
EventuallyRemoved ==
    \A k \in Keys : \A t \in EnrollTimes :
        EnrolledAt(k, t) ~> (k \notin PendingKeys(pending_scans) \/ EnrolledAfter(k, t))

Unresolved(p) == get_library_id_for_path(p).id = NoLib

\* nothing is enrolled, noted or changed in the cache
Dropped ==
    /\ pending_scans = <<>>
    /\ pending_notifications = <<>>
    /\ tasks = <<>>
    /\ library_files = NoCache

\* C30 as stated: under every server type the events of paths that resolve to
\* no section leave no pending key, no notification group and no change of
\* the cache.
C30_UnresolvedDroppedAsStated ==
    (\A p \in Files : Unresolved(p)) => Dropped

\* the deleted event of an unresolved path on Jellyfin or Emby: the path joins
\* a group titled "Media" under its folder, and the folder is enrolled with
\* no section id
StrayDeletion(p) ==
    /\ (RecheckOf(p) /\ ~(fs.mounted /\ p \in fs.files))
       => /\ del'[p].pc = "noted"
          /\ dirname(p) \in DOMAIN pending_notifications'
          /\ pending_notifications'[dirname(p)].library_title = "Media"
          /\ DeletedList(pending_notifications', dirname(p)) =
                Append(DeletedList(pending_notifications, dirname(p)), p)
    /\ (del[p].pc = "discarded" /\ del'[p].pc = "idle")
       => <<NoLib, dirname(p)>> \in PendingKeys(pending_scans')

\* C30: an event of a path that resolves to no section is dropped when the
\* server is Plex: no pending key, no notification group, no change of the
\* cache, no row in the stuck-file tracker.  On Jellyfin and Emby it is not:
\* a deleted event notes the path under its folder and enrolls the folder
\* with no section id, a created event is counted by the stuck-file tracker;
\* the cache is left as it was.
C30_UnresolvedByServer ==
    /\ []((\A p \in Files : Unresolved(p)) /\ library_files = NoCache)
    /\ [](SERVER_TYPE = "plex"
            => /\ Dropped
               /\ \A p \in Files :
                     /\ stuck_files[p] = 0
                     /\ del[p].outcome \in {"none", "exists", "unresolved"}
                     /\ del[p].pc \in {"idle", "sleeping"})
    /\ [][SERVER_TYPE # "plex"
            => \A p \in Files :
                  /\ StrayDeletion(p)
                  /\ SubmitFileEvent(p) => stuck_files'[p] = stuck_files[p] + 1]_vars
    /\ [](\A i \in 1..Len(pending_scans) : pending_scans[i].key[1] = NoLib)

\* on Emby the deleted event of an unresolved path ended with its folder
\* enrolled under no section id and the path in a group titled "Media", and
\* a created event of the other path was counted by the tracker
C30_Witness ==
    /\ SERVER_TYPE = "emby"
    /\ del[F1].outcome = "deleted"
    /\ <<NoLib, DirA>> \in PendingKeys(pending_scans)
    /\ DirA \in DOMAIN pending_notifications
    /\ pending_notifications[DirA].library_title = "Media"
    /\ pending_notifications[DirA].deleted = <<F1>>
    /\ stuck_files[F2] = 1


(***************************************************************************)
(* Properties of pending_scans_lock, checked under LockSpec.               *)
(***************************************************************************)
\* the threads that take the lock
LockThreads == {<<"worker">>, <<"hook">>} \cup LockHandlers

\* the positions inside a with self.pending_scans_lock block
InsideLock == {"collect", "set", "noting", "enrolling"}

\* the step is one of thread t
StepBy(t) == PosOf(call', del', t) # PosOf(call, del, t)

\* the step sends no request to the server, writes nothing to the store,
\* sends no notification, submits nothing to the pool and leaves the cache
NoCallOut ==
    UNCHANGED <<tasks, delivered, activities, server_index, stuck_files, events,
                event_seq, library_files, loading_libraries, fills>>

\* C29: a thread holds pending_scans_lock only inside one of the with blocks;
\* a step of the thread that holds the lock sends no HTTP request and writes
\* nothing to the store; pending_scans and pending_notifications are changed
\* only by a step of the thread that holds the lock.
C29_LockHeldInMemoryOnly ==
    /\ [](\A t \in LockThreads :
            PosOf(call, del, t) \in InsideLock <=> call.owner = t)
    /\ [][\A t \in LockThreads : (call.owner = t /\ StepBy(t)) => NoCallOut]_vars
    /\ [][(pending_scans' # pending_scans
             \/ pending_notifications' # pending_notifications)
            => (call.owner # NoOwner /\ StepBy(call.owner))]_vars

\* the deletion handler holds the lock at line 945 while a worker of the pool
\* waits for the refresh it requested, the worker of the tick loop is between
\* its with block and its notification, and the store has counted an attempt
C29_Witness ==
    /\ call.owner = <<"del", F1>>
    /\ del[F1].pc = "noting"
    /\ call.worker.pc = "send"
    /\ \E i \in 1..Len(tasks) : tasks[i].st = "waiting"
    /\ stuck_files[F2] = 1


(***************************************************************************)
(* Properties of the sweep's enrollments, checked under SweepSpec.         *)
(***************************************************************************)
\* the step ends the walk of a sweep that found missing files and is not
\* aborted
SweepEnrolls(t) ==
    /\ SweepDecide(t)
    /\ ~(config.ABORT_ON_MASS_DELETION /\ sw[t].total_missing > DELETION_THRESHOLD)
    /\ sw[t].total_missing > 0

\* the keys of a sequence of pending entries are in ascending order of folder
InPathOrder(pending) ==
    \A i, j \in 1..Len(pending) :
        i < j => ~StrLess(pending[j].key[2], pending[i].key[2])

\* the sweep enrolls its pairs in ascending order of folder path
SweepEnrollsInOrder ==
    [][\A t \in SweepThreads :
          (SweepEnrolls(t) /\ pending_scans = <<>>)
          => /\ PendingKeys(pending_scans') = sw[t].folders_to_scan
             /\ InPathOrder(pending_scans')]_vars

\* C31: a sweep that is not aborted and found missing files hands every pair
\* of its pending set to the scheduler as a forced enrollment: when the
\* enrollments return the refresh request of each pair has been sent and no
\* pair waits in pending_scans for the debounce.
C31_SweepForcesEnrollments ==
    [][\A t \in SweepThreads :
          SweepEnrolls(t)
          => /\ counters'.requested
             /\ \A k \in sw[t].folders_to_scan :
                   k \notin PendingKeys(pending_scans')]_vars


(***************************************************************************)
(* Properties of the walk's counters, checked under WalkSpec.              *)
(***************************************************************************)
\* the files under a scan path that have a media extension, are not hidden,
\* are not empty and match no ignore pattern
PassFilters == {f \in Files : scan_root_of(f) # <<>> /\ fs.kind[f] = "media" /\ ~is_ignored(f)}

\* those of them that lie in no directory an ignore pattern matches
Reached ==
    {f \in PassFilters : \A d \in AncestorDirs(scan_root_of(f), f) : ~is_ignored(d)}

\* the step is the walk of sweep t handling file p
WalkOf(t, p) ==
    /\ sw[t].pc = "walk"
    /\ p \in sw[t].todo
    /\ p \notin sw'[t].todo

\* before the step p is not indexed, resolves to a section and is not past
\* max_retries with this attempt
MissingAsStated(p) ==
    /\ ~is_in_library(p)
    /\ get_library_id_for_path(p).title # NoLib
    /\ stuck_files[p] + 1 <= max_retries

\* the step's health check, if it made one, passed
PassedCheck ==
    Len(events') > Len(events) => events'[Len(events')].event_type = "Health Check Passed"

\* the counters of the walk over the files of S, the missing files being
\* those of Test
WalkCounts(S, Test(_)) ==
    \A t \in SweepThreads :
        /\ sw'[t].pc = "walk" => sw'[t].total_scanned = Cardinality(S \ sw'[t].todo)
        /\ \A p \in Files :
              WalkOf(t, p)
              => /\ sw'[t].total_missing =
                       sw[t].total_missing + (IF Test(p) THEN 1 ELSE 0)
                 /\ sw'[t].total_missing = Cardinality(sw'[t].missing_items)
                 /\ sw'[t].folders_to_scan =
                       {<<get_library_id_for_path(f).id,
                          SweepTarget(get_library_id_for_path(f).id, f)>> :
                            f \in sw'[t].missing_items}

FetchesOf(l) == {f \in fills : f.lib = l}

\* the background fills are coalesced: one at a time for a section
OneBackgroundFill ==
    \A l \in LibIds : Cardinality({f \in FetchesOf(l) : f.by = "bg"}) <= 1

\* C33: for every section at most one fetch of cache_library_files is in
\* progress at any time, across the background fills and the sweep's
\* pre-cache.
C33_OneFetchPerSection ==
    \A l \in LibIds : Cardinality(FetchesOf(l)) <= 1


(***************************************************************************)
(* Properties of one dispatch task, checked under WaitLiveSpec.            *)
(***************************************************************************)
\* the longest a wait lasts: max_wait, and the last sleep and poll that
\* began before it was over
WaitBound == max_wait + POLL_SLEEP + 1

\* C34: every dispatch task ends.  For Plex the wait after an accepted
\* request ends at the first poll that finds no refresh of the section, or
\* once max_wait seconds have passed, whatever the server reports and however
\* many polls raise; a request that fails ends the task without a wait, and
\* no ending puts an entry into pending_scans.
C34_DispatchEnds ==
    /\ <>(call.pc = "returned")
    /\ [][/\ (call.pc = "wait" /\ call'.pc = "wait" /\ call' # call)
             => /\ call.t - call.start_wait <= max_wait
                /\ call'.t >= call.t + POLL_SLEEP
          /\ (call.pc = "wait" /\ call'.outcome = "finished")
             => call.key[1] \notin activities
          /\ call'.pc = "returned"
             => /\ call'.t - call'.start_wait <= WaitBound
                /\ pending_scans' = <<>>
                /\ call'.outcome = "failed" => (call'.t = 0 /\ call'.polls = 0)]_vars

\* a wait in which every poll was slept on ended by the bound
C34_Witness ==
    /\ call.fn = "_do_trigger_scan"
    /\ call.pc = "returned"
    /\ call.outcome = "timed_out"
    /\ call.polls > 100
    /\ "1" \in activities


(***************************************************************************)
(* Properties of the store under concurrent callers, checked under         *)
(* StoreSpec.                                                              *)
(***************************************************************************)
\* no increment_attempt call is in progress
NoAttemptRunning == \A th \in TrackerThreads : call.th[th].pc = "idle"

\* the calls made through one tracker object lose no increment: while the
\* sweep's tracker has made no call, attempts is the number of calls
SameTrackerCounts ==
    (NoAttemptRunning /\ call.th["sweep"].done = 0) => stuck_files[F1] = calls[F1]

\* C35: after n completed increment_attempt calls on a path with no clear in
\* between, made in any interleaving through the event path's tracker and the
\* tracker of a sweep, attempts equals n.
C35_NoLostIncrement ==
    NoAttemptRunning => stuck_files[F1] = calls[F1]


(***************************************************************************)
(* Stuck paths and enrollments, checked under StuckSpec.                   *)
(***************************************************************************)
\* the key of the path was enrolled at some time
EnrolledOnce(p) == last_enroll[KeyOf(p)] >= 0

\* C36: a path is treated as stuck (its attempts exceed max_retries, so that
\* increment_attempt gives up on it) only if it was enrolled for a refresh
\* more than max_retries times; the formula asks for the least of that, one
\* enrollment of its key.
C36_StuckOnlyAfterEnrollments ==
    \A p \in Files : stuck_files[p] > max_retries => EnrolledOnce(p)


(***************************************************************************)
(* The running flag across the exits of run_scan, checked under ExitSpec.  *)
(***************************************************************************)
\* C37: when a call of run_scan that set is_scanning returns, by completion,
\* by the mass deletion check or by an exception, is_scanning is False after
\* it, and is_scanning is True only while such a call has not returned; a call
\* that returns at line 1039 because a sweep is running leaves the flag.
C37_FlagResetOnReturn ==
    /\ [](is_scanning => \E t \in Callers : sw[t].pc \notin {"idle", "entered"})
    /\ [][\A t \in Callers :
            /\ (sw[t].pc \notin {"idle", "entered"} /\ sw'[t].pc = "idle")
               => ~is_scanning'
            /\ (sw[t].pc = "idle" /\ counters'.sweeps[t] > counters.sweeps[t]
                  /\ is_scanning)
               => (is_scanning' /\ sw'[t].pc = "idle")]_vars

\* the scheduled sweep has returned and the sweep of /api/scan-all, called
\* after it, has set the flag
C37_Witness ==
    /\ sw["sched"].pc = "idle" /\ counters.sweeps["sched"] = 1
    /\ sw["web"].pc = "prebuild"
    /\ is_scanning


(***************************************************************************)
(* The safety check across repeated sweeps, checked under RepeatSpec: no   *)
(* step changes the disk, the server index or the configuration, and no    *)
(* row of the tracker is deleted.                                          *)
(***************************************************************************)
\* C38: when a sweep has tripped the mass deletion check, a later sweep over
\* the same disk and the same server index, under the same configuration and
\* with no clear between them, trips it again when it ends its walk without
\* an error.
C38_GuardTripsAgain ==
    [][\A t \in Callers :
          (sw[t].pc = "walk" /\ sw'[t].pc = "finally" /\ sw[t].todo = {}
             /\ sw'[t].notes # <<"error">> /\ counters.tripped)
          => sw'[t].notes = <<"aborted">>]_vars


(***************************************************************************)
(* The lookups after a section's set was stored, checked under LookupSpec. *)
(***************************************************************************)
\* cache_library_files has stored a set for the section of the path
SetStored(p) ==
    /\ get_library_id_for_path(p).id # NoLib
    /\ library_files[get_library_id_for_path(p).id].present

\* C39: once cache_library_files has stored the set of a section, whatever
\* the server indexed for it, a lookup of a path of that section schedules no
\* other fill of the section and is answered from the set: an event on a path
\* that is not in the set counts an attempt, whatever the server indexes by
\* then.
C39_AnsweredFromStoredSet ==
    [][\A p \in Files :
          SetStored(p)
          => /\ loading_libraries' \subseteq
                   loading_libraries \cup
                      (LibIds \ {get_library_id_for_path(p).id})
             /\ (p \notin library_files[get_library_id_for_path(p).id].files
                   /\ calls'[p] # calls[p])
                => calls'[p] = calls[p] + 1]_vars


(***************************************************************************)
(* The handlers over a failing store, checked under FailSpec.              *)
(***************************************************************************)
\* C40: while the store fails no call changes a table and no call raises:
\* increment_attempt returns False, so that a sweep files the path as missing
\* under its folder, goes on with its walk and enrolls the folder; a failed
\* clear_entry or add_event leaves the walk going on too.
C40_StoreFailureSwallowed ==
    [][~fs.db_ok
       => /\ stuck_files' = stuck_files
          /\ events' = events
          /\ \A p \in Files : calls'[p] = calls[p] + 1 => ~last_ret'[p]
          /\ \A t \in SweepThreads, p \in Files :
                (sw[t].pc = "walk" /\ p \in sw[t].todo /\ p \notin sw'[t].todo)
                => /\ sw'[t].pc = "walk"
                   /\ calls'[p] = calls[p] + 1
                      => /\ p \in sw'[t].missing_items
                         /\ \E k \in sw'[t].folders_to_scan :
                               k[1] = get_library_id_for_path(p).id
          /\ \A t \in SweepThreads :
                (sw[t].pc = "walk" /\ sw'[t].pc = "finally"
                   /\ sw'[t].notes # <<"error">>)
                => \A k \in sw[t].folders_to_scan :
                      k \in PendingKeys(pending_scans')]_vars

\* the store failing, a sweep has filed a path as missing whose attempts are
\* past max_retries, and has enrolled its folder
C40_Witness ==
    /\ ~fs.db_ok
    /\ \E t \in SweepThreads, p \in Files :
          /\ stuck_files[p] > max_retries
          /\ sw[t].pc = "finally"
          /\ p \in sw[t].missing_items
          /\ sw[t].enrolled # {}

=============================================================================
